---- MODULE Spec2Model ----
(***************************************************************************)
(* decima-loc: the binary chunk codec of Horizon Zero Dawn (HZD) and Death *)
(* Stranding (DS) "core" files, the update operations on the parsed        *)
(* chunks, the structured-document and line-list serializers, the EOL      *)
(* token substitution and the single-file / group drivers.                 *)
(*                                                                         *)
(* A byte is a number 0..255, a byte stream a sequence of bytes.  A string *)
(* is the sequence of its Unicode code points (all below 2048 here, so a   *)
(* code point takes one or two UTF-8 bytes and one UTF-16 code unit).      *)
(***************************************************************************)
EXTENDS Integers, Sequences, FiniteSets, TLC

\* ------------------------------------------------------------------------
\* Bounds of the model
\* ------------------------------------------------------------------------

\* number of languages (codes 0..MaxLang-1) that carry text or are selected
MaxLang == 2
\* number of operations applied to a parsed game in one behaviour
MaxOps == 2
\* length of the strings given to the EOL substitution
MaxStrLen == 4
\* number of whole records of a file given to detect_game
MaxRecords == 3

\* ------------------------------------------------------------------------
\* Language enumerations (enum_map!)
\* ------------------------------------------------------------------------

HZD_LEN == 21
DS_LEN == 25

LEN(g) == IF g = "hzd" THEN HZD_LEN ELSE DS_LEN

HZDLanguageNames ==
    << <<69, 110, 103, 108, 105, 115, 104>>,  \* 0 English
       <<70, 114, 101, 110, 99, 104>>,  \* 1 French
       <<83, 112, 97, 110, 105, 115, 104>>,  \* 2 Spanish
       <<71, 101, 114, 109, 97, 110>>,  \* 3 German
       <<73, 116, 97, 108, 105, 97, 110>>,  \* 4 Italian
       <<68, 117, 116, 99, 104>>,  \* 5 Dutch
       <<80, 111, 114, 116, 117, 103, 117, 101, 115, 101>>,  \* 6 Portuguese
       <<84, 114, 97, 100, 105, 116, 105, 111, 110, 97, 108, 67, 104, 105, 110, 101, 115, 101>>,  \* 7 TraditionalChinese
       <<75, 111, 114, 101, 97, 110>>,  \* 8 Korean
       <<82, 117, 115, 115, 105, 97, 110>>,  \* 9 Russian
       <<80, 111, 108, 105, 115, 104>>,  \* 10 Polish
       <<68, 97, 110, 105, 115, 104>>,  \* 11 Danish
       <<70, 105, 110, 110, 105, 115, 104>>,  \* 12 Finnish
       <<78, 111, 114, 119, 101, 103, 105, 97, 110>>,  \* 13 Norwegian
       <<83, 119, 101, 100, 105, 115, 104>>,  \* 14 Swedish
       <<74, 97, 112, 97, 110, 101, 115, 101>>,  \* 15 Japanese
       <<76, 97, 116, 105, 110, 65, 109, 101, 114, 105, 99, 97, 110, 83, 112, 97, 110, 105, 115, 104>>,  \* 16 LatinAmericanSpanish
       <<66, 114, 97, 122, 105, 108, 105, 97, 110, 112, 111, 114, 116, 117, 103, 117, 101, 115, 101>>,  \* 17 Brazilianportuguese
       <<84, 117, 114, 107, 105, 115, 104>>,  \* 18 Turkish
       <<65, 114, 97, 98, 105, 99>>,  \* 19 Arabic
       <<83, 105, 109, 112, 108, 105, 102, 105, 101, 100, 67, 104, 105, 110, 101, 115, 101>>  \* 20 SimplifiedChinese
    >>

DSLanguageNames ==
    << <<69, 110, 103, 108, 105, 115, 104>>,  \* 0 English
       <<70, 114, 101, 110, 99, 104>>,  \* 1 French
       <<83, 112, 97, 110, 105, 115, 104>>,  \* 2 Spanish
       <<71, 101, 114, 109, 97, 110>>,  \* 3 German
       <<73, 116, 97, 108, 105, 97, 110>>,  \* 4 Italian
       <<68, 117, 116, 99, 104>>,  \* 5 Dutch
       <<80, 111, 114, 116, 117, 103, 117, 101, 115, 101>>,  \* 6 Portuguese
       <<67, 104, 105, 110, 101, 115, 101, 84, 114, 97, 100, 105, 116, 105, 111, 110, 97, 108>>,  \* 7 ChineseTraditional
       <<75, 111, 114, 101, 97, 110>>,  \* 8 Korean
       <<82, 117, 115, 115, 105, 97, 110>>,  \* 9 Russian
       <<80, 111, 108, 105, 115, 104>>,  \* 10 Polish
       <<68, 97, 110, 105, 115, 104>>,  \* 11 Danish
       <<70, 105, 110, 110, 105, 115, 104>>,  \* 12 Finnish
       <<78, 111, 114, 119, 101, 103, 105, 97, 110>>,  \* 13 Norwegian
       <<83, 119, 101, 100, 105, 115, 104>>,  \* 14 Swedish
       <<74, 97, 112, 97, 110, 101, 115, 101>>,  \* 15 Japanese
       <<76, 65, 84, 65, 77, 83, 80>>,  \* 16 LATAMSP
       <<76, 65, 84, 65, 77, 80, 79, 82>>,  \* 17 LATAMPOR
       <<84, 117, 114, 107, 105, 115, 104>>,  \* 18 Turkish
       <<65, 114, 97, 98, 105, 99>>,  \* 19 Arabic
       <<67, 104, 105, 110, 101, 115, 101, 83, 105, 109, 112, 108, 105, 102, 105, 101, 100>>,  \* 20 ChineseSimplified
       <<69, 110, 103, 108, 105, 115, 104, 85, 107>>,  \* 21 EnglishUk
       <<71, 114, 101, 101, 107>>,  \* 22 Greek
       <<67, 122, 101, 99, 104>>,  \* 23 Czech
       <<72, 117, 110, 103, 97, 114, 105, 97, 110>>  \* 24 Hungarian
    >>

\* Display for Language: the variant's name
LanguageName(g, l) ==
    IF g = "hzd" THEN HZDLanguageNames[l + 1] ELSE DSLanguageNames[l + 1]

\* ------------------------------------------------------------------------
\* Bytes and integers
\* ------------------------------------------------------------------------

RECURSIVE Pow256(_)
Pow256(i) == IF i = 0 THEN 1 ELSE 256 * Pow256(i - 1)

\* little-endian image of n in w bytes (the value is truncated to w bytes)
LE(n, w) == [i \in 1..w |-> (n \div Pow256(i - 1)) % 256]

RECURSIVE FromLE(_)
FromLE(b) == IF b = <<>> THEN 0 ELSE b[1] + 256 * FromLE(Tail(b))

Drop(b, n) == SubSeq(b, n + 1, Len(b))
Take(b, n) == SubSeq(b, 1, n)

RECURSIVE SumSeq(_)
SumSeq(s) == IF s = <<>> THEN 0 ELSE Head(s) + SumSeq(Tail(s))

RECURSIVE Flatten(_)
Flatten(ss) == IF ss = <<>> THEN <<>> ELSE Head(ss) \o Flatten(Tail(ss))

\* the elements of a FixedMap (array index 0..n-1) as a sequence
ArrSeq(f, n) == [i \in 1..n |-> f[i - 1]]

\* results of a read: Ok(value, rest of the stream), an UnexpectedEof i/o
\* error, or any other error (assertion failure, invalid encoding)
ROk(v, rest) == [st |-> "ok", v |-> v, rest |-> rest]
REof == [st |-> "eof"]
RErr == [st |-> "err"]

\* read exactly n bytes
ReadBytes(b, n) == IF Len(b) < n THEN REof ELSE ROk(Take(b, n), Drop(b, n))

\* read a little-endian unsigned integer of w bytes
ReadUInt(b, w) ==
    IF Len(b) < w THEN REof ELSE ROk(FromLE(Take(b, w)), Drop(b, w))

\* ------------------------------------------------------------------------
\* String value codecs
\* ------------------------------------------------------------------------

\* String::len(): the UTF-8 length in bytes, one byte for a character below
\* 128 and two for the others
Utf8Len(s) == Len(s) + Cardinality({i \in 1..Len(s) : s[i] >= 128})

\* String::as_bytes()
RECURSIVE Utf8Bytes(_)
Utf8Bytes(s) ==
    IF \A i \in 1..Len(s) : s[i] < 128 THEN s
    ELSE (IF Head(s) < 128 THEN <<Head(s)>>
          ELSE <<192 + (Head(s) \div 64), 128 + (Head(s) % 64)>>)
         \o Utf8Bytes(Tail(s))

\* String::from_utf8: Ok(code points) or an encoding error
RECURSIVE FromUtf8(_)
FromUtf8(b) ==
    IF b = <<>> THEN [ok |-> TRUE, v |-> <<>>]
    ELSE IF b[1] < 128 THEN
        LET r == FromUtf8(Tail(b)) IN
        [ok |-> r.ok, v |-> <<b[1]>> \o r.v]
    ELSE IF b[1] >= 194 /\ b[1] < 224 /\ Len(b) >= 2
            /\ b[2] >= 128 /\ b[2] < 192 THEN
        LET r == FromUtf8(Drop(b, 2)) IN
        [ok |-> r.ok, v |-> <<(b[1] - 192) * 64 + (b[2] - 128)>> \o r.v]
    ELSE [ok |-> FALSE, v |-> <<>>]

\* U8String::full_size
U8FullSize(s) == 2 + Utf8Len(s)

\* impl BinRead for U8String
U8StringRead(b) ==
    LET Decode(buf) ==
            IF buf.st # "ok" THEN buf
            ELSE LET Checked(string) ==
                         IF ~string.ok THEN RErr ELSE ROk(string.v, buf.rest)
                 IN  Checked(FromUtf8(buf.v))
        Counted(len) ==
            IF len.st # "ok" THEN len ELSE Decode(ReadBytes(len.rest, len.v))
    IN  Counted(ReadUInt(b, 2))

\* impl BinWrite for U8String
U8StringWrite(s) ==
    IF s = <<>> THEN LE(0, 2)
    ELSE LE(Utf8Len(s) % 65536, 2) \o Utf8Bytes(s)

\* U16String::u16_len: the number of UTF-16 code units
U16Len(s) == Len(s)

\* U16String::full_size
\* a full_size that counts the code units once
U16FullSize_Units(s) == 4 + U16Len(s)
U16FullSize(s) == 4 + U16Len(s) * 2

\* String::from_utf16 over the code units read; a surrogate is invalid here
RECURSIVE ReadUnits(_, _)
ReadUnits(b, n) ==
    IF n = 0 THEN ROk(<<>>, b)
    ELSE LET u == ReadUInt(b, 2) IN
         IF u.st # "ok" THEN u
         ELSE LET r == ReadUnits(u.rest, n - 1) IN
              IF r.st # "ok" THEN r ELSE ROk(<<u.v>> \o r.v, r.rest)

\* impl BinRead for U16String
U16StringRead(b) ==
    LET Decode(bytes) ==
            IF bytes.st # "ok" THEN bytes
            ELSE IF \E i \in 1..Len(bytes.v) :
                        bytes.v[i] >= 55296 /\ bytes.v[i] < 57344
                 THEN RErr
                 ELSE bytes
        Counted(len) ==
            IF len.st # "ok" THEN len ELSE Decode(ReadUnits(len.rest, len.v))
    IN  Counted(ReadUInt(b, 4))

\* impl BinWrite for U16String
U16StringWrite(s) ==
    IF s = <<>> THEN LE(0, 4)
    ELSE LE(U16Len(s), 4) \o Flatten([i \in 1..Len(s) |-> LE(s[i], 2)])

\* ------------------------------------------------------------------------
\* Chunk payloads
\* ------------------------------------------------------------------------

\* the magic numbers, as the 8 bytes found in the file (little-endian)
HZD_LOCALIZED_MAGIC == <<226, 178, 11, 66, 107, 89, 154, 184>>
HZD_CUTSCENE_MAGIC == <<127, 61, 105, 218, 74, 205, 62, 90>>
DS_LOCALIZED_MAGIC == <<69, 116, 49, 53, 36, 80, 190, 49>>

\* V::read_options / V::write_options of the element type V of an array or a
\* FixedMap; defined below, once the element types are
RECURSIVE ReadElem(_, _)
RECURSIVE WriteElem(_, _)

\* FixedMap::read_options: n consecutive elements, array index 0..n-1
RECURSIVE ReadArray(_, _, _)
ReadArray(elem, b, n) ==
    LET Rest(e) ==
            IF e.st # "ok" THEN e
            ELSE LET r == ReadArray(elem, e.rest, n - 1) IN
                 IF r.st # "ok" THEN r ELSE ROk(<<e.v>> \o r.v, r.rest)
    IN  IF n = 0 THEN ROk(<<>>, b) ELSE Rest(ReadElem(elem, b))

\* FixedMap::read_options with an array of one element more than the
\* enumeration has keys
FixedMapRead_ExtraSlot(elem, b, n) ==
    LET Indexed(r) ==
            IF r.st # "ok" THEN r
            ELSE ROk([i \in 0..n |-> r.v[(i % n) + 1]], r.rest)
    IN  Indexed(ReadArray(elem, b, n))

FixedMapRead(elem, b, n) ==
    LET Indexed(r) ==
            IF r.st # "ok" THEN r
            ELSE ROk([i \in 0..(n - 1) |-> r.v[i + 1]], r.rest)
    IN  Indexed(ReadArray(elem, b, n))

\* FixedMap::write_options
FixedMapWrite(elem, m, n) ==
    Flatten([i \in 1..n |-> WriteElem(elem, m[i - 1])])

\* hzd: struct Localized
HZDLocalizedRead(b) ==
    LET Strings(uuid, strings) ==
            IF strings.st # "ok" THEN strings
            ELSE ROk([kind |-> "Localized", uuid |-> uuid.v,
                      strings |-> strings.v], strings.rest)
        Uuid(uuid) ==
            IF uuid.st # "ok" THEN uuid
            ELSE Strings(uuid, FixedMapRead("U8String", uuid.rest, HZD_LEN))
    IN  Uuid(ReadBytes(b, 16))

HZDLocalizedWrite(loc) ==
    loc.uuid \o FixedMapWrite("U8String", loc.strings, HZD_LEN)

\* hzd: Localized::rt_size
HZDLocalizedRtSize(loc) ==
    (Len(loc.uuid)
     + SumSeq([i \in 1..HZD_LEN |-> U8FullSize(loc.strings[i - 1])]))

\* hzd: struct CutsceneStringData
CutsceneStringDataRead(b) ==
    LET Timing(string, timing) ==
            IF timing.st # "ok" THEN timing
            ELSE ROk([string |-> string.v, timing |-> timing.v], timing.rest)
        String(string) ==
            IF string.st # "ok" THEN string
            ELSE Timing(string, ReadBytes(string.rest, 8))
    IN  String(U16StringRead(b))

CutsceneStringDataWrite(d) == U16StringWrite(d.string) \o d.timing

\* hzd: struct CutsceneStringGroup
CutsceneStringGroupRead(b) ==
    LET StringsData(lang_code, count, strings_data) ==
            IF strings_data.st # "ok" THEN strings_data
            ELSE ROk([lang_code |-> lang_code.v, count |-> count.v,
                      strings_data |-> strings_data.v], strings_data.rest)
        Count(lang_code, count) ==
            IF count.st # "ok" THEN count
            ELSE StringsData(lang_code, count,
                     ReadArray("CutsceneStringData", count.rest, count.v))
        LangCode(lang_code) ==
            IF lang_code.st # "ok" THEN lang_code
            ELSE IF ~(lang_code.v <= HZD_LEN) THEN RErr
            ELSE Count(lang_code, ReadUInt(lang_code.rest, 4))
    IN  LangCode(ReadUInt(b, 4))

CutsceneStringGroupWrite(grp) ==
    LE(grp.lang_code, 4) \o LE(grp.count, 4)
    \o Flatten([i \in 1..Len(grp.strings_data) |->
                    CutsceneStringDataWrite(grp.strings_data[i])])

\* slice::sort_by (stable): insert e behind the elements not greater than it
RECURSIVE InsertByCode(_, _)
InsertByCode(sorted, e) ==
    IF sorted = <<>> THEN <<e>>
    ELSE IF sorted[Len(sorted)].lang_code <= e.lang_code
         THEN Append(sorted, e)
         ELSE Append(InsertByCode(Take(sorted, Len(sorted) - 1), e),
                     sorted[Len(sorted)])

RECURSIVE SortByCode(_)
SortByCode(s) ==
    IF s = <<>> THEN <<>>
    ELSE InsertByCode(SortByCode(Take(s, Len(s) - 1)), s[Len(s)])

\* hzd: sort_cutscene_group
sort_cutscene_group(map) ==
    LET sorted == SortByCode(ArrSeq(map, HZD_LEN)) IN
    [i \in 0..(HZD_LEN - 1) |-> sorted[i + 1]]

\* hzd: struct Cutscene
CutsceneRead(b) ==
    LET Unk(uuid, useless_block_len, useless_block, lang_count, list, unk) ==
            IF unk.st # "ok" THEN unk
            ELSE ROk([kind |-> "Cutscene", uuid |-> uuid.v,
                      useless_block_len |-> useless_block_len.v,
                      useless_block |-> useless_block.v,
                      lang_count |-> lang_count.v,
                      list |-> sort_cutscene_group(list.v),
                      unk |-> unk.v], unk.rest)
        List(uuid, useless_block_len, useless_block, lang_count, list) ==
            IF list.st # "ok" THEN list
            ELSE Unk(uuid, useless_block_len, useless_block, lang_count, list,
                     ReadBytes(list.rest, 5))
        LangCount(uuid, useless_block_len, useless_block, lang_count) ==
            IF lang_count.st # "ok" THEN lang_count
            ELSE IF ~(lang_count.v = HZD_LEN) THEN RErr
            ELSE List(uuid, useless_block_len, useless_block, lang_count,
                      FixedMapRead("CutsceneStringGroup", lang_count.rest, HZD_LEN))
        UselessBlock(uuid, useless_block_len, useless_block) ==
            IF useless_block.st # "ok" THEN useless_block
            ELSE LangCount(uuid, useless_block_len, useless_block,
                           ReadUInt(useless_block.rest, 4))
        UselessBlockLen(uuid, useless_block_len) ==
            IF useless_block_len.st # "ok" THEN useless_block_len
            ELSE UselessBlock(uuid, useless_block_len,
                     ReadBytes(useless_block_len.rest, useless_block_len.v + 4))
        Uuid(uuid) ==
            IF uuid.st # "ok" THEN uuid
            ELSE UselessBlockLen(uuid, ReadUInt(uuid.rest, 4))
    IN  Uuid(ReadBytes(b, 16))

CutsceneWrite(cut) ==
    cut.uuid \o LE(cut.useless_block_len, 4) \o cut.useless_block
    \o LE(cut.lang_count, 4)
    \o FixedMapWrite("CutsceneStringGroup", cut.list, HZD_LEN)
    \o cut.unk

\* hzd: Cutscene::rt_size
CutsceneRtSize(cut) ==
    LET other_sizes == Len(cut.uuid) + (cut.useless_block_len + 4)
                       + (4 * 2) + Len(cut.unk)
        string_sizes ==
            SumSeq([i \in 1..HZD_LEN |->
                (4 * 2)
                + SumSeq([j \in 1..Len(cut.list[i - 1].strings_data) |->
                    U16FullSize(cut.list[i - 1].strings_data[j].string) + 8])])
    IN  other_sizes + string_sizes

\* ds: struct LocalGroup
LocalGroupRead(b) ==
    LET Mode(text, note, mode) ==
            IF mode.st # "ok" THEN mode
            ELSE ROk([text |-> text.v, note |-> note.v, mode |-> mode.v],
                     mode.rest)
        Note(text, note) ==
            IF note.st # "ok" THEN note
            ELSE Mode(text, note, ReadUInt(note.rest, 1))
        Text(text) ==
            IF text.st # "ok" THEN text
            ELSE Note(text, U8StringRead(text.rest))
    IN  Text(U8StringRead(b))

LocalGroupWrite(grp) ==
    U8StringWrite(grp.text) \o U8StringWrite(grp.note) \o LE(grp.mode, 1)

\* ds: LocalGroup::rt_size
LocalGroupRtSize(grp) == U8FullSize(grp.text) + U8FullSize(grp.note) + 1

\* the element types read and written through arrays and FixedMaps
ReadElem(elem, b) ==
    CASE elem = "U8String" -> U8StringRead(b)
      [] elem = "CutsceneStringData" -> CutsceneStringDataRead(b)
      [] elem = "CutsceneStringGroup" -> CutsceneStringGroupRead(b)
      [] elem = "LocalGroup" -> LocalGroupRead(b)

WriteElem(elem, v) ==
    CASE elem = "U8String" -> U8StringWrite(v)
      [] elem = "CutsceneStringGroup" -> CutsceneStringGroupWrite(v)
      [] elem = "LocalGroup" -> LocalGroupWrite(v)

\* ds: struct Localized
DSLocalizedRead(b) ==
    LET StringGroups(uuid, string_groups) ==
            IF string_groups.st # "ok" THEN string_groups
            ELSE ROk([kind |-> "Localized", uuid |-> uuid.v,
                      string_groups |-> string_groups.v], string_groups.rest)
        Uuid(uuid) ==
            IF uuid.st # "ok" THEN uuid
            ELSE StringGroups(uuid, FixedMapRead("LocalGroup", uuid.rest, DS_LEN))
    IN  Uuid(ReadBytes(b, 16))

DSLocalizedWrite(loc) ==
    loc.uuid \o FixedMapWrite("LocalGroup", loc.string_groups, DS_LEN)

\* ds: Localized::rt_size
DSLocalizedRtSize(loc) ==
    Len(loc.uuid)
    + SumSeq([i \in 1..DS_LEN |-> LocalGroupRtSize(loc.string_groups[i - 1])])

\* ChunkVariants::Others { data }: count = size raw bytes
OthersRead(b, size) ==
    LET data == ReadBytes(b, size) IN
    IF data.st # "ok" THEN data
    ELSE ROk([kind |-> "Others", data |-> data.v], data.rest)

\* a variant guarded by #[br(pre_assert(magic == m))]
PreAssert(cond, r) == IF cond THEN r ELSE RErr

\* a data enum is read by trying its variants in declaration order, each from
\* the same position; the first that succeeds is the value.  When all fail
\* the error is EnumErrors, which is_eof() only if every variant's error is.
RECURSIVE ReadEnum(_)
ReadEnum(tries) ==
    IF tries = <<>> THEN REof
    ELSE IF Head(tries).st = "ok" THEN Head(tries)
    ELSE LET r == ReadEnum(Tail(tries)) IN
         IF r.st = "ok" THEN r
         ELSE IF Head(tries).st = "eof" /\ r.st = "eof" THEN REof
         ELSE RErr

\* enum ChunkVariants (hzd and ds), #[br(import(magic, size))]
ChunkVariantsRead(g, magic, size, b) ==
    IF g = "hzd" THEN
        ReadEnum(<< PreAssert(magic = HZD_LOCALIZED_MAGIC, HZDLocalizedRead(b)),
                    PreAssert(magic = HZD_CUTSCENE_MAGIC, CutsceneRead(b)),
                    OthersRead(b, size) >>)
    ELSE
        ReadEnum(<< PreAssert(magic = DS_LOCALIZED_MAGIC, DSLocalizedRead(b)),
                    OthersRead(b, size) >>)

ChunkVariantsWrite(g, v) ==
    IF v.kind = "Localized" THEN
        (IF g = "hzd" THEN HZDLocalizedWrite(v) ELSE DSLocalizedWrite(v))
    ELSE IF v.kind = "Cutscene" THEN CutsceneWrite(v)
    ELSE v.data

\* ChunkVariants::rt_size
rt_size(g, v) ==
    IF v.kind = "Localized" THEN
        (IF g = "hzd" THEN HZDLocalizedRtSize(v) ELSE DSLocalizedRtSize(v))
    ELSE IF v.kind = "Cutscene" THEN CutsceneRtSize(v)
    ELSE Len(v.data)

\* ChunkVariants::name
VariantName(v) == v.kind

\* struct Chunk: magic, the temporary size, the variant
ChunkRead(g, b) ==
    LET Variant(magic, variant) ==
            IF variant.st # "ok" THEN variant
            ELSE ROk([magic |-> magic.v, variant |-> variant.v], variant.rest)
        Size(magic, size) ==
            IF size.st # "ok" THEN size
            ELSE Variant(magic, ChunkVariantsRead(g, magic.v, size.v, size.rest))
        Magic(magic) ==
            IF magic.st # "ok" THEN magic
            ELSE Size(magic, ReadUInt(magic.rest, 4))
    IN  Magic(ReadBytes(b, 8))

\* Chunk written: size is calc = variant.rt_size()
ChunkWrite(g, c) ==
    c.magic \o LE(rt_size(g, c.variant), 4) \o ChunkVariantsWrite(g, c.variant)

\* binrw::helpers::until_eof: read items until a read fails; an error that
\* is_eof() ends the collection successfully, any other error is returned
\* (unread: the bytes from the start of the read that ended the collection)
RECURSIVE until_eof(_, _)
until_eof(g, b) ==
    LET Item(c) ==
            IF c.st = "eof" THEN [ok |-> TRUE, chunks |-> <<>>, unread |-> b]
            ELSE IF c.st = "err" THEN [ok |-> FALSE, chunks |-> <<>>, unread |-> b]
            ELSE LET r == until_eof(g, c.rest) IN
                 [ok |-> r.ok, chunks |-> <<c.v>> \o r.chunks, unread |-> r.unread]
    IN  Item(ChunkRead(g, b))

IsLocal(v) == v.kind \in {"Localized", "Cutscene"}

\* a new() that looks for a local resource in the first chunk only
New_FirstChunkOnly(g, b) ==
    LET Chunks(r) ==
            IF ~r.ok THEN [err |-> "BinRw", chunks |-> <<>>, unread |-> r.unread]
            ELSE IF ~(r.chunks # <<>> /\ IsLocal(r.chunks[1].variant))
                 THEN [err |-> "NoLocalResource", chunks |-> <<>>, unread |-> r.unread]
                 ELSE [err |-> "Ok", chunks |-> r.chunks, unread |-> r.unread]
    IN  Chunks(until_eof(g, b))

\* HZDLocal::new / DSLocal::new
New(g, b) ==
    LET Chunks(r) ==
            IF ~r.ok THEN [err |-> "BinRw", chunks |-> <<>>, unread |-> r.unread]
            ELSE IF ~(\E i \in 1..Len(r.chunks) : IsLocal(r.chunks[i].variant))
                 THEN [err |-> "NoLocalResource", chunks |-> <<>>, unread |-> r.unread]
                 ELSE [err |-> "Ok", chunks |-> r.chunks, unread |-> r.unread]
    IN  Chunks(until_eof(g, b))

\* HZDLocal::write / DSLocal::write: the chunks one after the other
Write(g, chunks) == Flatten([i \in 1..Len(chunks) |-> ChunkWrite(g, chunks[i])])

\* ------------------------------------------------------------------------
\* Results of the update operations (HZDError / DSError)
\* ------------------------------------------------------------------------

Ok == [kind |-> "Ok"]
\* an error that carries the last valid index in place of the chunk count
InvalidLocalResourceIdx_LastIndex(max, got) ==
    [kind |-> "InvalidLocalResourceIdx", max |-> max - 1, got |-> got]

InvalidLocalResourceIdx(max, got) ==
    [kind |-> "InvalidLocalResourceIdx", max |-> max, got |-> got]
CutsceneLinesDoesntMatch(lang, expected, got) ==
    [kind |-> "CutsceneLinesDoesntMatch", lang |-> lang,
     expected |-> expected, got |-> got]
\* an error that names the chunk's kind as the input and the input's kind as
\* the original
ResourceNotMatchAtIdx_Swapped(input, original) ==
    [kind |-> "ResourceNotMatchAtIdx", input |-> original, original |-> input]

ResourceNotMatchAtIdx(input, original) ==
    [kind |-> "ResourceNotMatchAtIdx", input |-> input, original |-> original]
LineCountDoesntMatchWithInput(expected, got) ==
    [kind |-> "LineCountDoesntMatchWithInput", expected |-> expected, got |-> got]
InvalidIndex(max, invalid_index) ==
    [kind |-> "InvalidIndex", max |-> max, invalid_index |-> invalid_index]
\* the thread panics (assert_eq!, division by zero, chunks_exact(0))
Panic == [kind |-> "Panic"]

\* the value of an operation on the chunks: the chunks as they are when the
\* operation returns, its result, and the index of the entry it was applying
\* when it returned an error (-1 when none)
Res(chunks, err) == [chunks |-> chunks, err |-> err, at |-> -1]
At(r, index) == [r EXCEPT !.at = index]

\* the ascending sequence of the elements of a set of language codes
\* (iteration of a BTreeSet / the keys of a BTreeMap)
RECURSIVE Ascending(_)
Ascending(S) ==
    IF S = {} THEN <<>>
    ELSE LET m == CHOOSE x \in S : \A y \in S : x <= y
         IN  <<m>> \o Ascending(S \ {m})

\* ------------------------------------------------------------------------
\* get_locals / update_locals
\* ------------------------------------------------------------------------

\* From<FixedMap<CutsceneStringGroup>> for FixedMap<Vec<String>>
CutsceneStrings(list) ==
    [l \in DOMAIN list |->
        [j \in 1..Len(list[l].strings_data) |-> list[l].strings_data[j].string]]

\* the extraction view of one chunk (LocalResource)
LocalOf(g, index, v) ==
    IF g = "hzd" THEN
        [index |-> index,
         variant |-> IF v.kind = "Localized"
                     THEN [kind |-> "Localized", map |-> v.strings]
                     ELSE [kind |-> "Cutscene", map |-> CutsceneStrings(v.list)]]
    ELSE [index |-> index,
          strings |-> [l \in DOMAIN v.string_groups |-> v.string_groups[l].text]]

\* HZDLocal::get_locals / DSLocal::get_locals; index is the 0-based position
RECURSIVE get_locals_from(_, _, _)
get_locals_from(g, chunks, i) ==
    IF i > Len(chunks) THEN <<>>
    ELSE (IF IsLocal(chunks[i].variant)
          THEN <<LocalOf(g, i - 1, chunks[i].variant)>> ELSE <<>>)
         \o get_locals_from(g, chunks, i + 1)

get_locals(g, chunks) == get_locals_from(g, chunks, 1)

\* for (lang, str) in map: strings[lang] = str, for the languages in langs
RECURSIVE SetStrings(_, _, _)
SetStrings(strings, map, langs) ==
    IF langs = <<>> THEN strings
    ELSE SetStrings([strings EXCEPT ![Head(langs)] = map[Head(langs)]],
                    map, Tail(langs))

\* an assignment of the texts that also empties the note of the group
RECURSIVE SetTexts_ClearsNote(_, _, _)
SetTexts_ClearsNote(groups, map, langs) ==
    IF langs = <<>> THEN groups
    ELSE SetTexts_ClearsNote(
             [groups EXCEPT ![Head(langs)].text = map[Head(langs)],
                            ![Head(langs)].note = <<>>],
             map, Tail(langs))

\* for (lang, str) in map: string_groups[lang].text = str
RECURSIVE SetTexts(_, _, _)
SetTexts(groups, map, langs) ==
    IF langs = <<>> THEN groups
    ELSE SetTexts([groups EXCEPT ![Head(langs)].text = map[Head(langs)]],
                  map, Tail(langs))

\* a zip that stores the strings in entries with a regenerated (zero) timing
ZipStrings_ResetsTiming(strings_data, list) ==
    [j \in 1..Len(strings_data) |->
        IF j <= Len(list) THEN [string |-> list[j], timing |-> <<0, 0, 0, 0, 0, 0, 0, 0>>]
        ELSE strings_data[j]]

\* for (csd, str) in strings_data.iter_mut().zip(list): csd.string = str
ZipStrings(strings_data, list) ==
    [j \in 1..Len(strings_data) |->
        IF j <= Len(list) THEN [strings_data[j] EXCEPT !.string = list[j]]
        ELSE strings_data[j]]

\* the Cutscene arm of update_locals and of internal_deserialize_and_update:
\* language after language, the length is checked and the strings are stored
RECURSIVE UpdateCutscene(_, _, _)
UpdateCutscene(list, map, langs) ==
    IF langs = <<>> THEN [list |-> list, err |-> Ok]
    ELSE LET lang == Head(langs) IN
         IF Len(map[lang]) # Len(list[lang].strings_data)
         THEN [list |-> list,
               err |-> CutsceneLinesDoesntMatch(
                           lang, Len(list[lang].strings_data), Len(map[lang]))]
         ELSE UpdateCutscene(
                  [list EXCEPT ![lang].strings_data =
                       ZipStrings(list[lang].strings_data, map[lang])],
                  map, Tail(langs))

\* one entry of the batch applied to the chunks; lvar is the entry's variant
\* (LocalVariants or SerdeLocalVariants) whose map has the languages langs
HZDApplyEntry(chunks, index, lvar, langs) ==
    IF ~(index < Len(chunks))
    THEN Res(chunks, InvalidLocalResourceIdx(Len(chunks), index))
    ELSE LET chunk == chunks[index + 1] IN
         IF lvar.kind = "Localized" /\ chunk.variant.kind = "Localized" THEN
             Res([chunks EXCEPT ![index + 1].variant.strings =
                      SetStrings(chunk.variant.strings, lvar.map, langs)], Ok)
         ELSE IF lvar.kind = "Cutscene" /\ chunk.variant.kind = "Cutscene" THEN
             LET r == UpdateCutscene(chunk.variant.list, lvar.map, langs) IN
             Res([chunks EXCEPT ![index + 1].variant.list = r.list], r.err)
         ELSE Res(chunks, ResourceNotMatchAtIdx(lvar.kind,
                                                VariantName(chunk.variant)))

\* an update that empties a chunk it has no strings for
DSApplyEntry_ClearsOthers(chunks, index, strings, langs) ==
    IF ~(index < Len(chunks))
    THEN Res(chunks, InvalidLocalResourceIdx(Len(chunks), index))
    ELSE LET chunk == chunks[index + 1] IN
         IF chunk.variant.kind = "Localized" THEN
             Res([chunks EXCEPT ![index + 1].variant.string_groups =
                      SetTexts(chunk.variant.string_groups, strings, langs)], Ok)
         ELSE Res([chunks EXCEPT ![index + 1].variant.data = <<>>],
                  ResourceNotMatchAtIdx("Localized", "Others"))

DSApplyEntry(chunks, index, strings, langs) ==
    IF ~(index < Len(chunks))
    THEN Res(chunks, InvalidLocalResourceIdx(Len(chunks), index))
    ELSE LET chunk == chunks[index + 1] IN
         IF chunk.variant.kind = "Localized" THEN
             Res([chunks EXCEPT ![index + 1].variant.string_groups =
                      SetTexts(chunk.variant.string_groups, strings, langs)], Ok)
         ELSE Res(chunks, ResourceNotMatchAtIdx("Localized", "Others"))

\* HZDLocal::update_locals / DSLocal::update_locals: the entries in order,
\* returning at the first error
RECURSIVE update_locals(_, _, _)
update_locals(g, chunks, locals) ==
    LET local == Head(locals)
        Applied(r) ==
            IF r.err # Ok THEN At(r, local.index)
            ELSE update_locals(g, r.chunks, Tail(locals))
    IN  IF locals = <<>> THEN Res(chunks, Ok)
        ELSE Applied(IF g = "hzd"
                     THEN HZDApplyEntry(chunks, local.index, local.variant,
                                        Ascending(0..(HZD_LEN - 1)))
                     ELSE DSApplyEntry(chunks, local.index, local.strings,
                                       Ascending(0..(DS_LEN - 1))))

\* ------------------------------------------------------------------------
\* Structured document (InternalDataSerializer)
\* ------------------------------------------------------------------------

\* .filter(|(l, _)| languages.contains(l)).collect() into a BTreeMap
\* an export that writes an empty text for the languages not selected
OnlyLangs_EmptyForOthers(map, languages) ==
    [l \in DOMAIN map |-> IF l \in languages THEN map[l] ELSE <<>>]
OnlyLangs(map, languages) == [l \in (DOMAIN map) \cap languages |-> map[l]]

\* internal_serialize: one SerdeLocal / LocalResource per local chunk
internal_serialize(g, chunks, languages) ==
    LET locals == get_locals(g, chunks) IN
    [k \in 1..Len(locals) |->
        IF g = "hzd"
        THEN [index |-> locals[k].index,
              variant |-> [kind |-> locals[k].variant.kind,
                           map |-> OnlyLangs(locals[k].variant.map, languages)]]
        ELSE [index |-> locals[k].index,
              strings |-> OnlyLangs(locals[k].strings, languages)]]

\* internal_deserialize_and_update
RECURSIVE internal_deserialize_and_update(_, _, _)
internal_deserialize_and_update(g, chunks, data) ==
    LET local == Head(data)
        Applied(r) ==
            IF r.err # Ok THEN At(r, local.index)
            ELSE internal_deserialize_and_update(g, r.chunks, Tail(data))
    IN  IF data = <<>> THEN Res(chunks, Ok)
        ELSE Applied(IF g = "hzd"
                     THEN HZDApplyEntry(chunks, local.index, local.variant,
                                        Ascending(DOMAIN local.variant.map))
                     ELSE DSApplyEntry(chunks, local.index, local.strings,
                                       Ascending(DOMAIN local.strings)))

\* ------------------------------------------------------------------------
\* Line list (InternalPlainTextDataSerializer / InternalTxtDataSerializer)
\* ------------------------------------------------------------------------

COLON == 58
SPACE == 32
TAB == 9

\* format!("{lang}:: {}", text)
WithName(g, lang, text) == LanguageName(g, lang) \o <<COLON, COLON, SPACE>> \o text

\* str::strip_prefix(..).unwrap_or_else(|| line)
StripPrefix(line, prefix) ==
    IF Len(line) >= Len(prefix) /\ Take(line, Len(prefix)) = prefix
    THEN Drop(line, Len(prefix))
    ELSE line

\* char::is_whitespace, for the characters of the model
IsWhitespace(ch) == ch \in {SPACE, TAB, 10, 11, 12, 13}

\* str::trim_start
RECURSIVE TrimStart(_)
TrimStart(s) ==
    IF s # <<>> /\ IsWhitespace(Head(s)) THEN TrimStart(Tail(s)) ELSE s

\* Range<usize>
Range(start, end) == [start |-> start, end |-> end]

\* slice::get(range): None unless start <= end <= len
SliceGet(lines, r) ==
    IF r.start <= r.end /\ r.end <= Len(lines)
    THEN [some |-> TRUE, v |-> SubSeq(lines, r.start + 1, r.end)]
    ELSE [some |-> FALSE, v |-> <<>>]

\* the accumulator of internal_serialize_to_lines
Acc(lines, info, count) == [lines |-> lines, info |-> info, count |-> count]

\* hzd: the lines of one Localized chunk, one per selected language
HZDLocalizedLines(loc, langs, add_language_names) ==
    [k \in 1..Len(langs) |->
        IF add_language_names
        THEN WithName("hzd", langs[k], loc.strings[langs[k]])
        ELSE loc.strings[langs[k]]]

\* hzd: the lines of one Cutscene chunk, language after language
HZDCutsceneLines(cut, langs, add_language_names) ==
    Flatten([k \in 1..Len(langs) |->
        [j \in 1..Len(cut.list[langs[k]].strings_data) |->
            IF add_language_names
            THEN WithName("hzd", langs[k], cut.list[langs[k]].strings_data[j].string)
            ELSE cut.list[langs[k]].strings_data[j].string]])

\* hzd: the loop body of internal_serialize_to_lines for the chunk at index
HZDLinesStep(acc, index, v, langs, add_language_names) ==
    IF v.kind = "Localized" THEN
        Acc(acc.lines \o HZDLocalizedLines(v, langs, add_language_names),
            Append(acc.info, [index |-> index,
                              range |-> Range(acc.count, acc.count + Len(langs)),
                              variant |-> "Localized"]),
            acc.count + Len(langs))
    ELSE IF v.kind = "Cutscene" THEN
        LET clines == HZDCutsceneLines(v, langs, add_language_names)
            t_count == Len(clines)
        IN  Acc(acc.lines \o clines,
                Append(acc.info, [index |-> index,
                                  range |-> Range(acc.count, acc.count + t_count),
                                  variant |-> "Cutscene"]),
                acc.count + t_count)
    ELSE acc

\* ds: the inner loop of internal_serialize_to_lines: for every language one
\* line is pushed, one info entry is pushed and count grows by languages.len()
DSLinesLangs(acc, index, loc, langs, nlangs, add_language_names) ==
    Acc(acc.lines \o
            [k \in 1..Len(langs) |->
                IF add_language_names
                THEN WithName("ds", langs[k], loc.string_groups[langs[k]].text)
                ELSE loc.string_groups[langs[k]].text],
        acc.info \o
            [k \in 1..Len(langs) |->
                [index |-> index,
                 range |-> Range(acc.count + (k - 1) * nlangs,
                                 acc.count + k * nlangs)]],
        acc.count + Len(langs) * nlangs)

DSLinesStep(acc, index, v, langs, add_language_names) ==
    IF v.kind = "Localized"
    THEN DSLinesLangs(acc, index, v, langs, Len(langs), add_language_names)
    ELSE acc

RECURSIVE LinesFrom(_, _, _, _, _, _)
LinesFrom(g, chunks, i, acc, langs, add_language_names) ==
    IF i > Len(chunks) THEN acc
    ELSE LinesFrom(g, chunks, i + 1,
             IF g = "hzd"
             THEN HZDLinesStep(acc, i - 1, chunks[i].variant, langs, add_language_names)
             ELSE DSLinesStep(acc, i - 1, chunks[i].variant, langs, add_language_names),
             langs, add_language_names)

\* internal_serialize_to_lines: the lines and the TxtDeInfo envelope
internal_serialize_to_lines(g, chunks, languages, add_language_names) ==
    LET Envelope(acc) ==
            [lines |-> acc.lines,
             deinfo |-> [languages |-> languages,
                         add_language_names |-> add_language_names,
                         count |-> acc.count,
                         info |-> acc.info]]
    IN  Envelope(LinesFrom(g, chunks, 1, Acc(<<>>, <<>>, 0),
                           Ascending(languages), add_language_names))

Min(a, b) == IF a <= b THEN a ELSE b

\* hzd: the text stored for a line
HZDLineText(line, lang, add_language_names) ==
    IF add_language_names
    THEN StripPrefix(line, LanguageName("hzd", lang) \o <<COLON, COLON, SPACE>>)
    ELSE line

\* ds: the text stored for a line
DSLineText(line, lang, add_language_names) ==
    IF add_language_names
    THEN TrimStart(StripPrefix(line, LanguageName("ds", lang) \o <<COLON, COLON>>))
    ELSE line

\* for (lang, line) in languages.iter().zip(lines): strings[lang] = text
\* the position of lang among the languages zipped with the lines, 0 if the
\* zip ends before it
ZipIndex(langs, lines, lang) ==
    IF \E k \in 1..Min(Len(langs), Len(lines)) : langs[k] = lang
    THEN CHOOSE k \in 1..Min(Len(langs), Len(lines)) : langs[k] = lang
    ELSE 0

HZDSetLines(strings, langs, lines, add_language_names) ==
    [lang \in DOMAIN strings |->
        LET k == ZipIndex(langs, lines, lang)
        IN  IF k = 0 THEN strings[lang]
            ELSE HZDLineText(lines[k], lang, add_language_names)]

DSSetLines(groups, langs, lines, add_language_names) ==
    [lang \in DOMAIN groups |->
        LET k == ZipIndex(langs, lines, lang)
        IN  IF k = 0 THEN groups[lang]
            ELSE [groups[lang] EXCEPT !.text =
                      DSLineText(lines[k], lang, add_language_names)]]

\* slice::chunks_exact(size): the full pieces of length size
ChunksExact(lines, size) ==
    [k \in 1..(Len(lines) \div size) |->
        SubSeq(lines, (k - 1) * size + 1, k * size)]

\* hzd: the Cutscene arm of internal_deserialize_and_update_from_lines; pieces
\* are the chunks_exact pieces zipped with the languages, nlangs is
\* deinfo.languages.len()
RECURSIVE HZDCutsceneFromLines(_, _, _, _, _)
HZDCutsceneFromLines(list, langs, pieces, nlangs, add_language_names) ==
    IF langs = <<>> \/ pieces = <<>> THEN [list |-> list, err |-> Ok]
    ELSE LET lang == Head(langs)
             lines == Head(pieces)
             str_data == list[lang].strings_data
         IN  IF Len(lines) # Len(str_data)
             THEN [list |-> list,
                   err |-> CutsceneLinesDoesntMatch(lang, Len(str_data),
                                                    Len(lines) \div nlangs)]
             ELSE HZDCutsceneFromLines(
                      [list EXCEPT ![lang].strings_data =
                          [j \in 1..Len(str_data) |->
                              [str_data[j] EXCEPT !.string =
                                  HZDLineText(lines[j], lang, add_language_names)]]],
                      Tail(langs), Tail(pieces), nlangs, add_language_names)

\* hzd: the loop body of internal_deserialize_and_update_from_lines
HZDFromLinesEntry(chunks, lines, deinfo, info) ==
    IF ~(info.index < Len(chunks))
    THEN Res(chunks, InvalidLocalResourceIdx(Len(chunks), info.index))
    ELSE
    LET chunk == chunks[info.index + 1]
        slice == SliceGet(lines, info.range)
        langs == Ascending(deinfo.languages)
        nlangs == Cardinality(deinfo.languages)
    IN
    IF ~slice.some THEN Res(chunks, InvalidIndex(Len(lines), info.index))
    ELSE IF info.variant = "Localized" /\ chunk.variant.kind = "Localized" THEN
        Res([chunks EXCEPT ![info.index + 1].variant.strings =
                 HZDSetLines(chunk.variant.strings, langs, slice.v,
                             deinfo.add_language_names)], Ok)
    ELSE IF info.variant = "Cutscene" /\ chunk.variant.kind = "Cutscene" THEN
        IF nlangs = 0 THEN Res(chunks, Panic)
        ELSE IF Len(slice.v) \div nlangs = 0 THEN Res(chunks, Panic)
        ELSE LET r == HZDCutsceneFromLines(
                          chunk.variant.list, langs,
                          ChunksExact(slice.v, Len(slice.v) \div nlangs),
                          nlangs, deinfo.add_language_names)
             IN  Res([chunks EXCEPT ![info.index + 1].variant.list = r.list],
                     r.err)
    ELSE Res(chunks, ResourceNotMatchAtIdx(info.variant,
                                           VariantName(chunk.variant)))

\* ds: the loop body of internal_deserialize_and_update_from_lines
DSFromLinesEntry(chunks, lines, deinfo, info) ==
    IF ~(info.index < Len(chunks))
    THEN Res(chunks, InvalidLocalResourceIdx(Len(chunks), info.index))
    ELSE
    LET chunk == chunks[info.index + 1]
        slice == SliceGet(lines, info.range)
        langs == Ascending(deinfo.languages)
    IN
    IF chunk.variant.kind = "Localized" THEN
        IF ~slice.some THEN Res(chunks, InvalidIndex(Len(lines), info.index))
        ELSE IF Len(slice.v) # Cardinality(deinfo.languages)
        THEN Res(chunks, Panic)
        ELSE Res([chunks EXCEPT ![info.index + 1].variant.string_groups =
                      DSSetLines(chunk.variant.string_groups, langs, slice.v,
                                 deinfo.add_language_names)], Ok)
    ELSE Res(chunks, ResourceNotMatchAtIdx("Localized", "Others"))

RECURSIVE FromLinesLoop(_, _, _, _, _)
FromLinesLoop(g, chunks, lines, deinfo, infos) ==
    LET Applied(r) ==
            IF r.err # Ok THEN At(r, Head(infos).index)
            ELSE FromLinesLoop(g, r.chunks, lines, deinfo, Tail(infos))
    IN  IF infos = <<>> THEN Res(chunks, Ok)
        ELSE Applied(IF g = "hzd"
                     THEN HZDFromLinesEntry(chunks, lines, deinfo, Head(infos))
                     ELSE DSFromLinesEntry(chunks, lines, deinfo, Head(infos)))

\* internal_deserialize_and_update_from_lines
\* an import that does not compare the number of lines with the count
from_lines_without_count_check(g, chunks, lines, deinfo) ==
    FromLinesLoop(g, chunks, lines, deinfo, deinfo.info)

internal_deserialize_and_update_from_lines(g, chunks, lines, deinfo) ==
    IF Len(lines) # deinfo.count
    THEN Res(chunks, LineCountDoesntMatchWithInput(deinfo.count, Len(lines)))
    ELSE FromLinesLoop(g, chunks, lines, deinfo, deinfo.info)

\* ------------------------------------------------------------------------
\* EOL token substitution (impl EofReplacor for String)
\* ------------------------------------------------------------------------

LF == 10
CR == 13
LT == 60
GT == 62
CH_C == 99
CH_F == 102
CH_L == 108
CH_R == 114

TOKEN_CF == <<LT, CH_C, CH_F, GT>>
TOKEN_LF == <<LT, CH_L, CH_F, GT>>
TOKEN_CR == <<LT, CH_C, CH_R, GT>>

\* str::contains(pattern)
Contains(s, pat) ==
    \E i \in 1..(Len(s) - Len(pat) + 1) : SubSeq(s, i, i + Len(pat) - 1) = pat

\* the loop of replace_eol over the remaining characters
RECURSIVE ReplaceEolLoop(_)
ReplaceEolLoop(chars) ==
    IF chars = <<>> THEN <<>>
    ELSE LET ch == Head(chars)
             rest == Tail(chars)
         IN  IF ch = CR THEN
                 IF rest # <<>> /\ Head(rest) = LF
                 THEN TOKEN_CF \o ReplaceEolLoop(Tail(rest))
                 ELSE TOKEN_CR \o ReplaceEolLoop(rest)
             ELSE IF ch = LF THEN TOKEN_LF \o ReplaceEolLoop(rest)
             ELSE <<ch>> \o ReplaceEolLoop(rest)

\* a replacement that does not look at the character after a "\r"
RECURSIVE ReplaceEolLoop_EachAlone(_)
ReplaceEolLoop_EachAlone(chars) ==
    IF chars = <<>> THEN <<>>
    ELSE IF Head(chars) = CR THEN TOKEN_CR \o ReplaceEolLoop_EachAlone(Tail(chars))
    ELSE IF Head(chars) = LF THEN TOKEN_LF \o ReplaceEolLoop_EachAlone(Tail(chars))
    ELSE <<Head(chars)>> \o ReplaceEolLoop_EachAlone(Tail(chars))

replace_eol_EachAlone(s) == ReplaceEolLoop_EachAlone(s)

replace_eol(s) ==
    IF ~(Contains(s, <<CR>>) \/ Contains(s, <<LF>>)) THEN s
    ELSE ReplaceEolLoop(s)

\* the loop of replace_eol_back over the remaining characters
RECURSIVE ReplaceEolBackLoop(_)
ReplaceEolBackLoop(chars) ==
    IF chars = <<>> THEN <<>>
    ELSE LET ch == Head(chars)
             rest == Tail(chars)
             code == IF Len(rest) >= 3 THEN Take(rest, 3) ELSE <<>>
         IN  IF ch = LT /\ code = <<CH_C, CH_F, GT>>
             THEN <<CR, LF>> \o ReplaceEolBackLoop(Drop(rest, 3))
             ELSE IF ch = LT /\ code = <<CH_L, CH_F, GT>>
             THEN <<LF>> \o ReplaceEolBackLoop(Drop(rest, 3))
             ELSE IF ch = LT /\ code = <<CH_C, CH_R, GT>>
             THEN <<CR>> \o ReplaceEolBackLoop(Drop(rest, 3))
             ELSE <<ch>> \o ReplaceEolBackLoop(rest)

replace_eol_back(s) ==
    IF ~(Contains(s, TOKEN_CF) \/ Contains(s, TOKEN_LF) \/ Contains(s, TOKEN_CR))
    THEN s
    ELSE ReplaceEolBackLoop(s)

\* ------------------------------------------------------------------------
\* Input files of the model
\* ------------------------------------------------------------------------

Games == {"hzd", "ds"}

\* the languages that carry text in the files and that are selected or edited
Langs == 0..(MaxLang - 1)

\* the language selections of an export: some of Langs, or all languages
AllLangs(g) == 0..(LEN(g) - 1)
Selections(g) == (SUBSET Langs) \cup {AllLangs(g)}

\* texts found in the files, by language: "a", " b" (leading blank), "e-acute"
FileTexts == << <<97>>, <<SPACE, 98>>, <<233>> >>
FileText(l) == FileTexts[(l % Len(FileTexts)) + 1]

\* texts written by an edit: "" and " z" (longer, with a leading blank)
EditTexts == { <<>>, <<SPACE, 122>> }

\* the text of an edited or added line
EditLine == <<SPACE, 122>>

ImgUuid == [i \in 1..16 |-> i]
ImgTiming(j) == <<j, 0, 0, 0, 0, 0, 0, 1>>
OTHER_MAGIC == <<1, 2, 3, 4, 5, 6, 7, 8>>

\* file image of a narrow and of a wide string
ImgU8(s) == LE(Utf8Len(s), 2) \o Utf8Bytes(s)
ImgU16(s) == LE(Len(s), 4) \o Flatten([i \in 1..Len(s) |-> LE(s[i], 2)])

\* file image of a record: magic, size field, payload
ImgChunk(magic, size, payload) == magic \o LE(size, 4) \o payload

\* hzd Localized payload: uuid and HZD_LEN narrow strings
ImgHZDLocalized ==
    ImgUuid \o Flatten([i \in 1..HZD_LEN |->
                           ImgU8(IF (i - 1) \in Langs THEN FileText(i - 1) ELSE <<>>)])

\* ds Localized payload: uuid and DS_LEN groups of text, note, mode
ImgDSLocalized ==
    ImgUuid \o Flatten([i \in 1..DS_LEN |->
                           ImgU8(IF (i - 1) \in Langs THEN FileText(i - 1) ELSE <<>>)
                           \o ImgU8(IF i = 1 THEN <<110>> ELSE <<>>) \o <<i % 2>>])

\* number of entries of language l in a cutscene of the given shape
ShapeCount(shape, l) ==
    IF l \notin Langs \/ shape = "empty" THEN 0
    ELSE IF shape = "even" THEN 1
    ELSE l + 1

\* one per-language group of a cutscene
ImgGroup(shape, l) ==
    LE(l, 4) \o LE(ShapeCount(shape, l), 4)
    \o Flatten([j \in 1..ShapeCount(shape, l) |-> ImgU16(FileText(l + j)) \o ImgTiming(j)])

\* hzd Cutscene payload; the groups are stored in ascending or in descending
\* order of their language code
ImgCutscene(shape, descending) ==
    ImgUuid \o LE(2, 4) \o <<9, 9, 9, 9, 9, 9>> \o LE(HZD_LEN, 4)
    \o Flatten([i \in 1..HZD_LEN |->
                   ImgGroup(shape, IF descending THEN HZD_LEN - i ELSE i - 1)])
    \o <<5, 4, 3, 2, 1>>

CutShapes == {"even", "uneven", "empty"}

\* the code stored in the i-th group (from 1) of a miscoded cutscene: the
\* second group has the code of the first, or the last group has the code
\* LEN, or the code LEN + 1
Miscodings == {"shared", "over", "beyond"}
StoredCode(miscoding, i) ==
    IF miscoding = "shared" /\ i = 2 THEN 0
    ELSE IF miscoding = "over" /\ i = HZD_LEN THEN HZD_LEN
    ELSE IF miscoding = "beyond" /\ i = HZD_LEN THEN HZD_LEN + 1
    ELSE i - 1

\* hzd Cutscene payload whose groups, of one entry for the languages that
\* carry text, do not have every code 0..LEN-1 once
ImgCutsceneMiscoded(miscoding) ==
    ImgUuid \o LE(2, 4) \o <<9, 9, 9, 9, 9, 9>> \o LE(HZD_LEN, 4)
    \o Flatten([i \in 1..HZD_LEN |->
                   LE(StoredCode(miscoding, i), 4) \o Drop(ImgGroup("even", i - 1), 4)])
    \o <<5, 4, 3, 2, 1>>

ImgOthers == ImgChunk(OTHER_MAGIC, 3, <<7, 8, 9>>)

ImgLocalized(g) ==
    IF g = "hzd" THEN ImgChunk(HZD_LOCALIZED_MAGIC, Len(ImgHZDLocalized), ImgHZDLocalized)
    ELSE ImgChunk(DS_LOCALIZED_MAGIC, Len(ImgDSLocalized), ImgDSLocalized)

\* a Localized record whose size field is not the length of its payload
ImgLocalizedOddSize(g) ==
    IF g = "hzd" THEN ImgChunk(HZD_LOCALIZED_MAGIC, 0, ImgHZDLocalized)
    ELSE ImgChunk(DS_LOCALIZED_MAGIC, 0, ImgDSLocalized)

\* a record with the Localized magic whose payload is not a Localized payload
ImgLocalizedRaw(g) ==
    ImgChunk(IF g = "hzd" THEN HZD_LOCALIZED_MAGIC ELSE DS_LOCALIZED_MAGIC,
             3, <<7, 8, 9>>)

ImgCutsceneChunk(shape, descending) ==
    LET p == ImgCutscene(shape, descending) IN ImgChunk(HZD_CUTSCENE_MAGIC, Len(p), p)

\* whole records
RecordImages(g) ==
    {ImgOthers, ImgLocalized(g), ImgLocalizedOddSize(g), ImgLocalizedRaw(g)}
    \cup (IF g = "hzd"
          THEN {ImgCutsceneChunk(s, d) : s \in CutShapes, d \in BOOLEAN}
               \cup {ImgChunk(HZD_CUTSCENE_MAGIC, Len(ImgCutsceneMiscoded(m)),
                              ImgCutsceneMiscoded(m)) : m \in Miscodings}
          ELSE {})

\* files of two records
Pairs(g) ==
    {ImgOthers \o ImgLocalized(g)}
    \cup (IF g = "hzd"
          THEN {ImgLocalized(g) \o ImgCutsceneChunk("even", FALSE),
                ImgCutsceneChunk("uneven", FALSE) \o ImgOthers}
          ELSE {ImgLocalized(g) \o ImgLocalized(g)})

\* the beginning of a record: a file that ends inside the header (5 or 10
\* bytes), inside a Localized payload or inside an opaque payload
PartialRecords(g) ==
    {Take(ImgLocalized(g), 5), Take(ImgLocalized(g), 10),
     Take(ImgLocalized(g), 20), Take(ImgOthers, 13)}

Streams(g) ==
    RecordImages(g)
    \cup Pairs(g)
    \cup {ImgLocalized(g) \o t : t \in PartialRecords(g)}
    \cup {t : t \in {Take(ImgLocalized(g), 10)}}

\* ------------------------------------------------------------------------
\* Inputs of the operations
\* ------------------------------------------------------------------------

\* replacements for the list of one language of a cutscene: every string
\* replaced, one entry more, no entry
CutEdits(list) ==
    { [j \in 1..Len(list) |-> EditLine], Append(list, EditLine), <<>> }

\* the values an edit may give to language l of an entry
EditValues(g, entry, l) ==
    IF g = "hzd" /\ entry.variant.kind = "Cutscene"
    THEN CutEdits(entry.variant.map[l])
    ELSE EditTexts

EditEntry(g, entry, l, val) ==
    IF g = "hzd" THEN [entry EXCEPT !.variant.map[l] = val]
    ELSE [entry EXCEPT !.strings[l] = val]

\* a batch with language l of its k-th entry edited
EditBatch(g, batch, k, l, val) ==
    [batch EXCEPT ![k] = EditEntry(g, batch[k], l, val)]

\* the batches in which an earlier language of a cutscene entry has every string
\* replaced and a later language has a list of another length
TwoEdits(g, batch) ==
    IF g # "hzd" THEN {}
    ELSE { EditBatch(g, EditBatch(g, batch, k, p[1],
                             [j \in 1..Len(batch[k].variant.map[p[1]]) |-> EditLine]),
                     k, p[2], Append(batch[k].variant.map[p[2]], EditLine)) :
               k \in {n \in 1..Len(batch) : batch[n].variant.kind = "Cutscene"},
               p \in {q \in Langs \X Langs : q[1] < q[2]} }

\* a batch of one entry, the k-th of the batch, addressed to index i
Readdressed(batch, k, i) == << [batch[k] EXCEPT !.index = i] >>

\* every entry of the batch with its language 0 edited
EditedAll(g, batch) ==
    [k \in 1..Len(batch) |->
        EditEntry(g, batch[k], 0,
                  IF g = "hzd" /\ batch[k].variant.kind = "Cutscene"
                  THEN [j \in 1..Len(batch[k].variant.map[0]) |-> EditLine]
                  ELSE EditLine)]

InsertAt(s, k, e) == SubSeq(s, 1, k - 1) \o <<e>> \o SubSeq(s, k, Len(s))

\* an edited batch with one more entry, at any position, whose index is not
\* an index of the n chunks
Misaddressed(g, batch, n) ==
    IF batch = <<>> THEN {}
    ELSE { InsertAt(EditedAll(g, batch), k, [batch[1] EXCEPT !.index = i]) :
               k \in 1..(Len(batch) + 1), i \in {n, n + 1} }

\* arguments of update_locals: what get_locals returned, as it is, with one
\* language of one entry edited or two languages of a cutscene edited, or one
\* entry addressed to another index
UpdateLocalsInputs(g, chunks) ==
    LET locals == get_locals(g, chunks) IN
    {locals}
    \cup UNION { { EditBatch(g, locals, k, l, val) :
                       val \in EditValues(g, locals[k], l) } :
                 k \in 1..Len(locals), l \in Langs }
    \cup TwoEdits(g, locals)
    \cup { Readdressed(locals, k, i) : k \in 1..Len(locals), i \in 0..Len(chunks) }
    \cup Misaddressed(g, locals, Len(chunks))

\* arguments of internal_deserialize_and_update: an exported document as it
\* is, or the export of the languages Langs with one language of one entry
\* edited, two languages of a cutscene edited, or one entry addressed to
\* another index, or the export of language 0 alone with every entry edited
ImportDocInputs(g, chunks) ==
    { internal_serialize(g, chunks, languages) : languages \in Selections(g) }
    \cup UNION {
          UNION { { EditBatch(g, data, k, l, val) :
                        val \in EditValues(g, data[k], l) } :
                  k \in 1..Len(data), l \in Langs }
          \cup TwoEdits(g, data)
          \cup { Readdressed(data, k, i) :
                     k \in 1..Len(data), i \in 0..Len(chunks) }
          \cup Misaddressed(g, data, Len(chunks)) :
          data \in { internal_serialize(g, chunks, Langs) } }
    \cup { EditedAll(g, internal_serialize(g, chunks, {0})) }

\* the envelope with n more lines recorded for its last resource
Grown(deinfo, n) ==
    IF deinfo.info = <<>> THEN [deinfo EXCEPT !.count = @ + n]
    ELSE [deinfo EXCEPT !.count = @ + n,
                        !.info[Len(deinfo.info)].range.end = @ + n]

\* arguments of internal_deserialize_and_update_from_lines: an export as it
\* is, or the export of the languages Langs with one line edited, with the
\* last line missing, or with one or languages.len() lines added to the last
\* resource, or the export of language 0 alone with one line added to the last
\* resource
ImportLinesInputs(g, chunks) ==
    { internal_serialize_to_lines(g, chunks, languages, aln) :
          languages \in Selections(g), aln \in BOOLEAN }
    \cup UNION {
          { [ser EXCEPT !.lines[i] = EditLine] : i \in 1..Len(ser.lines) }
          \cup (IF ser.lines = <<>> THEN {}
                ELSE { [ser EXCEPT !.lines = Take(ser.lines, Len(ser.lines) - 1)] })
          \cup { [lines |-> ser.lines \o [j \in 1..n |-> EditLine],
                  deinfo |-> Grown(ser.deinfo, n)] : n \in {1, MaxLang} } :
          ser \in { internal_serialize_to_lines(g, chunks, Langs, aln) :
                        aln \in BOOLEAN } }
    \cup UNION {
          { [ser EXCEPT !.lines = [j \in 1..Len(ser.lines) |-> EditLine],
                        !.deinfo.info[k].index = i] :
                k \in 1..Len(ser.deinfo.info), i \in 0..(Len(chunks) + 1) }
          \cup { [ser EXCEPT !.deinfo.info[k].index = i,
                             !.deinfo.info[k].range.end = Len(ser.lines) + 1] :
                     k \in 1..Len(ser.deinfo.info), i \in 0..(Len(chunks) - 1) } :
          ser \in { internal_serialize_to_lines(g, chunks, languages, FALSE) :
                        languages \in {{0}, Langs} } }
    \cup { [lines |-> ser.lines \o <<EditLine>>, deinfo |-> Grown(ser.deinfo, 1)] :
               ser \in { internal_serialize_to_lines(g, chunks, {0}, FALSE) } }

\* ------------------------------------------------------------------------
\* Text files: lines.join("\n"), std::fs::write, BufRead::lines
\* ------------------------------------------------------------------------

\* lines.join("\n")
RECURSIVE JoinLines(_)
JoinLines(lines) ==
    IF lines = <<>> THEN <<>>
    ELSE IF Len(lines) = 1 THEN Head(lines)
    ELSE Head(lines) \o <<LF>> \o JoinLines(Tail(lines))

\* the position of the first "\n" of s, 0 if there is none
FirstLF(s) ==
    IF \E i \in 1..Len(s) : s[i] = LF
    THEN CHOOSE i \in 1..Len(s) : s[i] = LF /\ \A j \in 1..(i - 1) : s[j] # LF
    ELSE 0

\* BufRead::lines: a line ends at "\n" or at the end of the text; the "\n" and
\* a "\r" right before it are not part of the line
RECURSIVE SplitLines(_)
SplitLines(s) ==
    IF s = <<>> THEN <<>>
    ELSE LET i == FirstLF(s) IN
         IF i = 0 THEN <<s>>
         ELSE LET line == Take(s, i - 1) IN
              << IF line # <<>> /\ line[Len(line)] = CR
                 THEN Take(line, Len(line) - 1) ELSE line >>
              \o SplitLines(Drop(s, i))

\* the bytes std::fs::write stores for the lines of an export, joined by "\n"
WriteTxt(lines) ==
    JoinLines([k \in 1..Len(lines) |-> Utf8Bytes(replace_eol(lines[k]))])

\* reader.lines().map(replace_eol_back) on the bytes of a text file: the
\* bytes are split into lines and every line is decoded
ReadTxt(bytes) ==
    LET lines == SplitLines(bytes) IN
    [k \in 1..Len(lines) |-> replace_eol_back(FromUtf8(lines[k]).v)]

\* ------------------------------------------------------------------------
\* The drivers: SerializeData (single file), Single::command, DecimaGroup
\* ------------------------------------------------------------------------

\* Error::DeserializeError(e.to_string()): cause is the error whose text it has
DeserializeError(cause) == [kind |-> "DeserializeError", cause |-> cause]
\* "Line number doesn't match, expected {} but got {}"
LineNumberDoesntMatch(expected, got) ==
    [kind |-> "LineNumberDoesntMatch", expected |-> expected, got |-> got]
\* "Found invalid index when tried to read strings from input. max index: {}"
GroupInvalidIndex(max) == [kind |-> "GroupInvalidIndex", max |-> max]
\* bail!("Nothing changed, write to disk cancelled.")
NothingChanged == [kind |-> "NothingChanged"]
\* Error::BinRw / Error::NoLocalResource of new()
NewError(e) == [kind |-> e]

\* what a driver leaves behind: its result, the chunks of every game it holds
\* in memory, and the output files it created (path and bytes)
Run(result, mem, outputs) == [result |-> result, mem |-> mem, outputs |-> outputs]

\* SerializeData::serialize, SerializeType::Txt: the text file and the sidecar
SingleExport(g, chunks, languages, add_language_names) ==
    LET Files(ser) == [txt |-> WriteTxt(ser.lines), deinfo |-> ser.deinfo,
                       lines |-> ser.lines]
    IN  Files(internal_serialize_to_lines(g, chunks, languages, add_language_names))

\* SerializeData::deserialize_and_update, SerializeType::Txt
SingleDeserializeAndUpdate(g, chunks, txt, deinfo) ==
    LET Mapped(r) ==
            IF r.err = Ok \/ r.err = Panic THEN r
            ELSE [r EXCEPT !.err = DeserializeError(r.err)]
    IN  Mapped(internal_deserialize_and_update_from_lines(g, chunks, ReadTxt(txt),
                                                          deinfo))

\* Single::command, Action::Import, without the dont_skip flag in the test
\* before File::create
SingleImport_SkipsWhenForced(g, core, txt, deinfo, dont_skip) ==
    LET Imported(n, r) ==
            IF r.err # Ok THEN Run(r.err, <<r.chunks>>, <<>>)
            ELSE IF r.chunks = n.chunks
            THEN Run(NothingChanged, <<r.chunks>>, <<>>)
            ELSE Run(Ok, <<r.chunks>>, <<[path |-> 1, bytes |-> Write(g, r.chunks)]>>)
        Opened(n) ==
            IF n.err # "Ok" THEN Run(NewError(n.err), <<>>, <<>>)
            ELSE Imported(n, SingleDeserializeAndUpdate(g, n.chunks, txt, deinfo))
    IN  Opened(New(g, core))

\* Single::command, Action::Import: new, deserialize_and_update, the
\* comparison of the hashes of the game before and after (equal chunks hash
\* equal; a collision of the 64-bit hashes of different chunks is not modelled),
\* File::create and write
SingleImport(g, core, txt, deinfo, dont_skip) ==
    LET Imported(n, r) ==
            IF r.err # Ok THEN Run(r.err, <<r.chunks>>, <<>>)
            ELSE IF ~dont_skip /\ r.chunks = n.chunks
            THEN Run(NothingChanged, <<r.chunks>>, <<>>)
            ELSE Run(Ok, <<r.chunks>>, <<[path |-> 1, bytes |-> Write(g, r.chunks)]>>)
        Opened(n) ==
            IF n.err # "Ok" THEN Run(NewError(n.err), <<>>, <<>>)
            ELSE Imported(n, SingleDeserializeAndUpdate(g, n.chunks, txt, deinfo))
    IN  Opened(New(g, core))

\* DecimaGroup.files: the input folder is a function from the paths that have
\* a core file to the bytes of the file; the files are visited by path
LastPath(files) ==
    IF DOMAIN files = {} THEN 0
    ELSE CHOOSE p \in DOMAIN files : \A q \in DOMAIN files : q <= p

\* DecimaGroup::export, SerializeType::Txt: the loop over self.files; acc has
\* the lines, the info entries and the count so far, err the error returned
RECURSIVE GroupExportLoop(_, _, _, _, _, _)
GroupExportLoop(g, files, path, languages, add_language_names, acc) ==
    LET Serialized(ser) ==
            GroupExportLoop(g, files, path + 1, languages, add_language_names,
                Acc(acc.lines \o ser.lines,
                    Append(acc.info,
                           [path |-> path,
                            range |-> Range(acc.count, acc.count + Len(ser.lines)),
                            inner_info |-> ser.deinfo]),
                    acc.count + Len(ser.lines)))
        Opened(n) ==
            IF n.err = "NoLocalResource"
            THEN GroupExportLoop(g, files, path + 1, languages, add_language_names, acc)
            ELSE IF n.err # "Ok" THEN [acc |-> acc, err |-> NewError(n.err)]
            ELSE Serialized(internal_serialize_to_lines(g, n.chunks, languages,
                                                        add_language_names))
    IN  IF path > LastPath(files) THEN [acc |-> acc, err |-> Ok]
        ELSE IF path \notin DOMAIN files
        THEN GroupExportLoop(g, files, path + 1, languages, add_language_names, acc)
        ELSE Opened(New(g, files[path]))

\* DecimaGroup::export, SerializeType::Txt
GroupExport(g, files, languages, add_language_names) ==
    LET Files(r) ==
            [err |-> r.err,
             txt |-> WriteTxt(r.acc.lines),
             lines |-> r.acc.lines,
             deinfo |-> [languages |-> languages,
                         count |-> r.acc.count,
                         info |-> r.acc.info]]
    IN  Files(GroupExportLoop(g, files, 1, languages, add_language_names,
                              Acc(<<>>, <<>>, 0)))

\* DecimaGroup::import, SerializeType::Txt, with a loop that ends at the first
\* entry whose path is not in self.files
RECURSIVE GroupImportLoop_EndsAtMissing(_, _, _, _, _)
GroupImportLoop_EndsAtMissing(g, files, lines, infos, run) ==
    LET info == Head(infos)
        Imported(r) ==
            IF r.err = Panic
            THEN Run(Panic, Append(run.mem, r.chunks), run.outputs)
            ELSE IF r.err # Ok
            THEN Run(DeserializeError(r.err), Append(run.mem, r.chunks), run.outputs)
            ELSE GroupImportLoop_EndsAtMissing(g, files, lines, Tail(infos),
                     Run(Ok, Append(run.mem, r.chunks),
                         Append(run.outputs,
                                [path |-> info.path, bytes |-> Write(g, r.chunks)])))
        Opened(slice, n) ==
            IF n.err # "Ok" THEN [run EXCEPT !.result = NewError(n.err)]
            ELSE Imported(internal_deserialize_and_update_from_lines(
                              g, n.chunks, slice.v, info.inner_info))
        Sliced(slice) ==
            IF ~slice.some
            THEN [run EXCEPT !.result = DeserializeError(GroupInvalidIndex(Len(lines)))]
            ELSE Opened(slice, New(g, files[info.path]))
    IN  IF infos = <<>> THEN run
        ELSE IF info.path \notin DOMAIN files THEN run
        ELSE Sliced(SliceGet(lines, info.range))

\* DecimaGroup::import, SerializeType::Txt: the loop over deinfo.info; run has
\* the games held in memory and the output files created so far
RECURSIVE GroupImportLoop(_, _, _, _, _)
GroupImportLoop(g, files, lines, infos, run) ==
    LET info == Head(infos)
        Imported(r) ==
            IF r.err = Panic
            THEN Run(Panic, Append(run.mem, r.chunks), run.outputs)
            ELSE IF r.err # Ok
            THEN Run(DeserializeError(r.err), Append(run.mem, r.chunks), run.outputs)
            ELSE GroupImportLoop(g, files, lines, Tail(infos),
                     Run(Ok, Append(run.mem, r.chunks),
                         Append(run.outputs,
                                [path |-> info.path, bytes |-> Write(g, r.chunks)])))
        Opened(slice, n) ==
            IF n.err # "Ok" THEN [run EXCEPT !.result = NewError(n.err)]
            ELSE Imported(internal_deserialize_and_update_from_lines(
                              g, n.chunks, slice.v, info.inner_info))
        Sliced(slice) ==
            IF ~slice.some
            THEN [run EXCEPT !.result = DeserializeError(GroupInvalidIndex(Len(lines)))]
            ELSE Opened(slice, New(g, files[info.path]))
    IN  IF infos = <<>> THEN run
        ELSE IF info.path \notin DOMAIN files
        THEN GroupImportLoop(g, files, lines, Tail(infos), run)
        ELSE Sliced(SliceGet(lines, info.range))

\* DecimaGroup::import, SerializeType::Txt
GroupImport(g, files, txt, deinfo) ==
    LET Read(lines) ==
            IF Len(lines) # deinfo.count
            THEN Run(DeserializeError(LineNumberDoesntMatch(deinfo.count, Len(lines))),
                     <<>>, <<>>)
            ELSE GroupImportLoop(g, files, lines, deinfo.info, Run(Ok, <<>>, <<>>))
    IN  Read(ReadTxt(txt))

\* DecimaGroup::serialize_locals: the loop over self.files; locals maps the
\* paths of the files that have a local resource to their documents
RECURSIVE SerializeLocalsLoop(_, _, _, _, _)
SerializeLocalsLoop(g, files, path, languages, locals) ==
    LET Opened(n) ==
            IF n.err = "NoLocalResource"
            THEN SerializeLocalsLoop(g, files, path + 1, languages, locals)
            ELSE IF n.err # "Ok" THEN [locals |-> locals, err |-> NewError(n.err)]
            ELSE SerializeLocalsLoop(g, files, path + 1, languages,
                     locals @@ (path :> internal_serialize(g, n.chunks, languages)))
    IN  IF path > LastPath(files) THEN [locals |-> locals, err |-> Ok]
        ELSE IF path \notin DOMAIN files
        THEN SerializeLocalsLoop(g, files, path + 1, languages, locals)
        ELSE Opened(New(g, files[path]))

\* DecimaGroup::export, SerializeType::Json
serialize_locals(g, files, languages) ==
    SerializeLocalsLoop(g, files, 1, languages, <<>>)

\* DecimaGroup::deserialize_locals: the loop over the HashMap, whose entries
\* come in the order given
RECURSIVE DeserializeLocalsLoop(_, _, _, _, _)
DeserializeLocalsLoop(g, files, locals, order, run) ==
    LET path == Head(order)
        Imported(r) ==
            IF r.err = Panic
            THEN Run(Panic, Append(run.mem, r.chunks), run.outputs)
            ELSE IF r.err # Ok
            THEN Run(DeserializeError(r.err), Append(run.mem, r.chunks), run.outputs)
            ELSE DeserializeLocalsLoop(g, files, locals, Tail(order),
                     Run(Ok, Append(run.mem, r.chunks),
                         Append(run.outputs,
                                [path |-> path, bytes |-> Write(g, r.chunks)])))
        Opened(n) ==
            IF n.err # "Ok" THEN [run EXCEPT !.result = NewError(n.err)]
            ELSE Imported(internal_deserialize_and_update(g, n.chunks, locals[path]))
    IN  IF order = <<>> THEN run
        ELSE IF path \notin DOMAIN files
        THEN DeserializeLocalsLoop(g, files, locals, Tail(order), run)
        ELSE Opened(New(g, files[path]))

\* DecimaGroup::import, SerializeType::Json
deserialize_locals(g, files, locals, order) ==
    DeserializeLocalsLoop(g, files, locals, order, Run(Ok, <<>>, <<>>))

\* ------------------------------------------------------------------------
\* ProgressIter: the calls on the Progress of a group loop, with the marks of
\* what the loop body did with every unit
\* ------------------------------------------------------------------------

\* ProgressIter::next found an item / found none
AddProgress(unit) == [ev |-> "add_progress", unit |-> unit]
EndProgress == [ev |-> "end_progress", unit |-> 0]
\* the loop body ran to its end for the unit, left it with continue, or
\* returned an error (or panicked) in it
Completed(unit) == [ev |-> "completed", unit |-> unit]
Skipped(unit) == [ev |-> "skipped", unit |-> unit]
Failed(unit) == [ev |-> "failed", unit |-> unit]

\* a loop that counts a unit only when its file has a local resource
RECURSIVE ExportProgress_CountsExportedOnly(_, _, _)
ExportProgress_CountsExportedOnly(g, files, path) ==
    LET Opened(n) ==
            IF n.err = "NoLocalResource"
            THEN <<Skipped(path)>> \o ExportProgress_CountsExportedOnly(g, files, path + 1)
            ELSE IF n.err # "Ok" THEN <<Failed(path)>>
            ELSE <<AddProgress(path), Completed(path)>>
                 \o ExportProgress_CountsExportedOnly(g, files, path + 1)
    IN  IF path > LastPath(files) THEN <<EndProgress>>
        ELSE IF path \notin DOMAIN files
        THEN ExportProgress_CountsExportedOnly(g, files, path + 1)
        ELSE Opened(New(g, files[path]))

\* DecimaGroup::export (Txt) and serialize_locals: the loop over
\* self.files.iter().progress(..); next() calls add_progress and hands the
\* path to the body, or calls end_progress when the files are exhausted
RECURSIVE ExportProgress(_, _, _)
ExportProgress(g, files, path) ==
    LET Opened(n) ==
            IF n.err = "NoLocalResource"
            THEN <<Skipped(path)>> \o ExportProgress(g, files, path + 1)
            ELSE IF n.err # "Ok" THEN <<Failed(path)>>
            ELSE <<Completed(path)>> \o ExportProgress(g, files, path + 1)
    IN  IF path > LastPath(files) THEN <<EndProgress>>
        ELSE IF path \notin DOMAIN files THEN ExportProgress(g, files, path + 1)
        ELSE <<AddProgress(path)>> \o Opened(New(g, files[path]))

\* DecimaGroup::import (Txt): the loop over deinfo.info.into_iter().progress(..);
\* the unit is the position k of the entry
RECURSIVE ImportProgress(_, _, _, _, _)
ImportProgress(g, files, lines, infos, k) ==
    LET info == infos[k]
        Imported(r) ==
            IF r.err # Ok THEN <<Failed(k)>>
            ELSE <<Completed(k)>> \o ImportProgress(g, files, lines, infos, k + 1)
        Opened(slice, n) ==
            IF n.err # "Ok" THEN <<Failed(k)>>
            ELSE Imported(internal_deserialize_and_update_from_lines(
                              g, n.chunks, slice.v, info.inner_info))
        Sliced(slice) ==
            IF ~slice.some THEN <<Failed(k)>>
            ELSE Opened(slice, New(g, files[info.path]))
    IN  IF k > Len(infos) THEN <<EndProgress>>
        ELSE <<AddProgress(k)>> \o
             (IF info.path \notin DOMAIN files
              THEN <<Skipped(k)>> \o ImportProgress(g, files, lines, infos, k + 1)
              ELSE Sliced(SliceGet(lines, info.range)))

\* DecimaGroup::deserialize_locals: the loop over
\* locals.into_iter().progress(..); the unit is the path of the entry
RECURSIVE ImportDocProgress(_, _, _, _)
ImportDocProgress(g, files, locals, order) ==
    LET path == Head(order)
        Imported(r) ==
            IF r.err # Ok THEN <<Failed(path)>>
            ELSE <<Completed(path)>> \o ImportDocProgress(g, files, locals, Tail(order))
        Opened(n) ==
            IF n.err # "Ok" THEN <<Failed(path)>>
            ELSE Imported(internal_deserialize_and_update(g, n.chunks, locals[path]))
    IN  IF order = <<>> THEN <<EndProgress>>
        ELSE <<AddProgress(path)>> \o
             (IF path \notin DOMAIN files
              THEN <<Skipped(path)>> \o ImportDocProgress(g, files, locals, Tail(order))
              ELSE Opened(New(g, files[path])))

\* the calls of an import: none in single-file mode and none when the line
\* count check of the group import fails before the loop
ImportCalls(g, m, f, files, txt, deinfo, locals, order) ==
    IF m = "single" THEN <<>>
    ELSE IF f = "json" THEN ImportDocProgress(g, files, locals, order)
    ELSE IF Len(ReadTxt(txt)) # deinfo.count THEN <<>>
    ELSE ImportProgress(g, files, ReadTxt(txt), deinfo.info, 1)

\* ------------------------------------------------------------------------
\* detect_game
\* ------------------------------------------------------------------------

\* hzd::LOCALIZED_MAGIC | hzd::CUTSCENE_MAGIC
\* a table of HZD that has the Localized magic only
IsHzdMagic_LocalizedOnly(magic) == magic = HZD_LOCALIZED_MAGIC
IsHzdMagic(magic) == magic \in {HZD_LOCALIZED_MAGIC, HZD_CUTSCENE_MAGIC}

\* ds::LOCALIZED_MAGIC
IsDsMagic(magic) == magic = DS_LOCALIZED_MAGIC

\* match (hzd.eq(&0), ds.eq(&0))
GameDetection(hzd, ds) ==
    IF hzd = 0 /\ ds = 0 THEN "Unknown"
    ELSE IF ds = 0 THEN "Hzd"
    ELSE IF hzd = 0 THEN "Ds"
    ELSE "Mixed"

\* the loop of detect_game with the reader at pos: the magic is read (an
\* UnexpectedEof ends the loop), the size is read (any error is returned), the
\* counters are updated and the reader seeks size bytes forward, which may
\* leave it behind the end of the file
RECURSIVE DetectLoop(_, _, _, _)
DetectLoop(b, pos, hzd, ds) ==
    IF Len(b) - pos < 8 THEN [ok |-> TRUE, v |-> GameDetection(hzd, ds)]
    ELSE IF Len(b) - pos < 12 THEN [ok |-> FALSE, v |-> "BinRw"]
    ELSE DetectLoop(b, pos + 12 + FromLE(SubSeq(b, pos + 9, pos + 12)),
                    hzd + (IF IsHzdMagic(SubSeq(b, pos + 1, pos + 8)) THEN 1 ELSE 0),
                    ds + (IF IsDsMagic(SubSeq(b, pos + 1, pos + 8)) THEN 1 ELSE 0))

detect_game(b) == DetectLoop(b, 0, 0, 0)

\* ------------------------------------------------------------------------
\* Inputs of the EOL substitution and of the drivers
\* ------------------------------------------------------------------------

\* the characters of the strings given to replace_eol: the line ends and the
\* characters of the tokens
EolAlphabet == {LF, CR, LT, GT, CH_C, CH_F, CH_L, CH_R}
EolStrings == UNION { [1..n -> EolAlphabet] : n \in 0..MaxStrLen }

\* the language selections of an export by the drivers: some of the languages
\* that carry text, or one of them and a language whose strings are empty in
\* every file
EmptyLang == MaxLang
DriverSelections == ((SUBSET Langs) \ {{}}) \cup {{0, EmptyLang}}

\* core files of the drivers
DriverCores(g) ==
    {ImgLocalized(g), ImgOthers \o ImgLocalized(g)}
    \cup (IF g = "hzd" THEN {ImgCutsceneChunk("even", FALSE)} ELSE {})

\* the core files of the input: one file, or a folder of two files one of
\* which may have no local resource
CoreDirs(g, m) ==
    IF m = "single" THEN { <<f>> : f \in DriverCores(g) }
    ELSE { <<a, b>> : a \in DriverCores(g) \cup {ImgOthers}, b \in DriverCores(g) }

\* what may happen to the input folder between the export and the import: the
\* file of a path is removed (another file stays), or replaced by another file
ChangedFolders(g, files) ==
    { [q \in DOMAIN files \ {p} |-> files[q]] :
          p \in {q \in DOMAIN files : DOMAIN files # {q}} }
    \cup { [files EXCEPT ![p] = f] :
              p \in DOMAIN files, f \in DriverCores(g) \cup {ImgOthers} }

\* the orders in which a HashMap with the keys S may give its entries
Orders(S) ==
    { o \in [1..Cardinality(S) -> S] :
          \A i, j \in 1..Cardinality(S) : o[i] = o[j] => i = j }

\* the position of the last "\n" of s, 0 if there is none
LastLF(s) ==
    IF \E i \in 1..Len(s) : s[i] = LF
    THEN CHOOSE i \in 1..Len(s) : s[i] = LF /\ \A j \in (i + 1)..Len(s) : s[j] # LF
    ELSE 0

\* what a translator does to the text file: a line added at the end, the last
\* line removed, the first line changed
TamperKinds == {"add", "remove", "edit"}
Tampered(bytes, kind) ==
    IF kind = "add" THEN bytes \o <<LF>> \o EditLine
    ELSE IF kind = "remove" THEN Take(bytes, IF LastLF(bytes) = 0 THEN 0 ELSE LastLF(bytes) - 1)
    ELSE <<122>> \o bytes

\* ------------------------------------------------------------------------
\* State
\* ------------------------------------------------------------------------

VARIABLES
    game,      \* "hzd" (HZDLocal) or "ds" (DSLocal)
    stream,    \* the bytes of the core file given to new()
    pc,        \* "start", "ready" (parsed), "rejected" (new failed), "aborted" (panic)
    chunks,    \* self.chunks
    parsed,    \* self.chunks as new() returned them
    edited,    \* an update operation was called since new()
    err,       \* the result of the last operation
    last,      \* the last operation, its arguments and self.chunks before it
    out,       \* what the last operation, if it was write(), wrote
    nops,      \* the number of update operations called since new()
    eol_pc,    \* EOL substitution: "raw", "escaped", "restored", "unescaped"
    eol_in,    \* the string given
    eol_out,   \* replace_eol of it
    eol_back,  \* replace_eol_back of eol_out (or of eol_in when "unescaped")
    dpc,       \* drivers: "start", "exported", "tampered", "changed", "imported"
    mode,      \* "single" (Single::command) or "group" (DecimaGroup)
    fmt,       \* SerializeType: "txt" or "json"
    cores,     \* the core files of the input folder, by path
    dont_skip, \* the flag of Action::Import
    txt,       \* the bytes of the exported text file
    deinfo,    \* the sidecar written next to it
    doc,       \* the documents of the exported json file, by path
    run,       \* what the import left behind
    out_lines, \* the lines the export handed to the text file
    progress,  \* the calls on the Progress of the last group loop, with marks
    det_pc,    \* game detection: "given", "detected"
    det_in,    \* the core file given to detect_game: its records and its tail
    det_out,   \* what detect_game returned
    u8_pc,     \* a narrow string field: "held", "written", "read"
    u8_in,     \* the string the field holds at write time
    u8_out,    \* the bytes written for the field and for the field behind it
    u8_back    \* what reading those bytes gave

coreVars == <<game, stream, pc, chunks, parsed, edited, err, last, out, nops>>
eolVars == <<eol_pc, eol_in, eol_out, eol_back>>
drvVars == <<dpc, mode, fmt, cores, dont_skip, txt, deinfo, doc, run, out_lines, progress>>
detVars == <<det_pc, det_in, det_out>>
u8Vars == <<u8_pc, u8_in, u8_out, u8_back>>
vars == <<coreVars, eolVars, drvVars, detVars, u8Vars>>

NotWritten == [written |-> FALSE, bytes |-> <<>>, edited |-> FALSE]
NoDeinfo == [languages |-> {}, count |-> 0, info |-> <<>>]

\* the parts of the state a specification does not use
CoreIdle ==
    /\ stream = <<>>
    /\ pc = "idle"
    /\ chunks = <<>>
    /\ parsed = <<>>
    /\ edited = FALSE
    /\ err = Ok
    /\ last = [op |-> "none"]
    /\ out = NotWritten
    /\ nops = 0

EolIdle ==
    /\ eol_pc = "idle"
    /\ eol_in = <<>>
    /\ eol_out = <<>>
    /\ eol_back = <<>>

DrvIdle ==
    /\ dpc = "idle"
    /\ mode = "single"
    /\ fmt = "txt"
    /\ cores = <<>>
    /\ dont_skip = FALSE
    /\ txt = <<>>
    /\ deinfo = NoDeinfo
    /\ doc = <<>>
    /\ run = Run(Ok, <<>>, <<>>)
    /\ out_lines = <<>>
    /\ progress = <<>>

U8Idle ==
    /\ u8_pc = "idle"
    /\ u8_in = <<>>
    /\ u8_out = <<>>
    /\ u8_back = REof

DetIdle ==
    /\ det_pc = "idle"
    /\ det_in = [recs |-> <<>>, tail |-> <<>>]
    /\ det_out = [ok |-> TRUE, v |-> "Unknown"]

\* ------------------------------------------------------------------------
\* One core file in memory: new, the updates, write
\* ------------------------------------------------------------------------

Init ==
    /\ game \in Games
    /\ stream \in Streams(game)
    /\ pc = "start"
    /\ chunks = <<>>
    /\ parsed = <<>>
    /\ edited = FALSE
    /\ err = Ok
    /\ last = [op |-> "none"]
    /\ out = NotWritten
    /\ nops = 0
    /\ EolIdle
    /\ DrvIdle
    /\ DetIdle
    /\ U8Idle

\* HZDLocal::new / DSLocal::new on the file
NewGame ==
    /\ pc = "start"
    /\ \E r \in {New(game, stream)} :
       /\ pc' = IF r.err = "Ok" THEN "ready" ELSE "rejected"
       /\ chunks' = r.chunks
       /\ parsed' = r.chunks
       /\ err' = [kind |-> r.err]
       /\ last' = [op |-> "new", unread |-> r.unread]
    /\ UNCHANGED <<game, stream, edited, out, nops, eolVars, drvVars, detVars, u8Vars>>

\* the state after an update operation that returned r
Updated(op, arg, r) ==
    /\ chunks' = r.chunks
    /\ err' = r.err
    /\ pc' = IF r.err = Panic THEN "aborted" ELSE "ready"
    /\ last' = [op |-> op, arg |-> arg, pre |-> chunks, at |-> r.at]
    /\ edited' = TRUE
    /\ out' = NotWritten
    /\ nops' = nops + 1
    /\ UNCHANGED <<game, stream, parsed, eolVars, drvVars, detVars, u8Vars>>

\* update_locals(locals)
UpdateLocals ==
    /\ pc = "ready"
    /\ nops < MaxOps
    /\ \E locals \in UpdateLocalsInputs(game, chunks) :
           Updated("update_locals", locals, update_locals(game, chunks, locals))

\* internal_deserialize_and_update(data)
ImportDoc ==
    /\ pc = "ready"
    /\ nops < MaxOps
    /\ \E data \in ImportDocInputs(game, chunks) :
           Updated("import_doc", data,
                   internal_deserialize_and_update(game, chunks, data))

\* internal_deserialize_and_update_from_lines(lines, deinfo)
ImportLines ==
    /\ pc = "ready"
    /\ nops < MaxOps
    /\ \E inp \in ImportLinesInputs(game, chunks) :
           Updated("import_lines", inp,
                   internal_deserialize_and_update_from_lines(
                       game, chunks, inp.lines, inp.deinfo))

\* write(writer)
WriteGame ==
    /\ pc = "ready"
    /\ out' = [written |-> TRUE, bytes |-> Write(game, chunks), edited |-> edited]
    /\ last' = [op |-> "write"]
    /\ UNCHANGED <<game, stream, pc, chunks, parsed, edited, err, nops,
                   eolVars, drvVars, detVars, u8Vars>>

Next ==
    \/ NewGame
    \/ UpdateLocals
    \/ ImportDoc
    \/ ImportLines
    \/ WriteGame

Spec == Init /\ [][Next]_vars

\* ------------------------------------------------------------------------
\* The EOL substitution on one string
\* ------------------------------------------------------------------------

InitEol ==
    /\ eol_in \in EolStrings
    /\ eol_pc = "raw"
    /\ eol_out = <<>>
    /\ eol_back = <<>>
    /\ game = "hzd"
    /\ CoreIdle
    /\ DrvIdle
    /\ DetIdle
    /\ U8Idle

\* replace_eol on the string, as the export does on every line
Escape ==
    /\ eol_pc = "raw"
    /\ eol_out' = replace_eol(eol_in)
    /\ eol_pc' = "escaped"
    /\ UNCHANGED <<eol_in, eol_back, coreVars, drvVars, detVars, u8Vars>>

\* replace_eol_back on the escaped string, as the import does on every line
Unescape ==
    /\ eol_pc = "escaped"
    /\ eol_back' = replace_eol_back(eol_out)
    /\ eol_pc' = "restored"
    /\ UNCHANGED <<eol_in, eol_out, coreVars, drvVars, detVars, u8Vars>>

\* replace_eol_back on a line that no export wrote
UnescapeRaw ==
    /\ eol_pc = "raw"
    /\ eol_back' = replace_eol_back(eol_in)
    /\ eol_pc' = "unescaped"
    /\ UNCHANGED <<eol_in, eol_out, coreVars, drvVars, detVars, u8Vars>>

NextEol ==
    \/ Escape
    \/ Unescape
    \/ UnescapeRaw

SpecEol == InitEol /\ [][NextEol]_vars

\* ------------------------------------------------------------------------
\* The drivers: export to a text file, the translator's edit, import
\* ------------------------------------------------------------------------

InitDrivers ==
    /\ game \in Games
    /\ mode \in {"single", "group"}
    /\ fmt \in IF mode = "group" THEN {"txt", "json"} ELSE {"txt"}
    /\ cores \in CoreDirs(game, mode)
    /\ dont_skip \in BOOLEAN
    /\ dpc = "start"
    /\ txt = <<>>
    /\ deinfo = NoDeinfo
    /\ doc = <<>>
    /\ run = Run(Ok, <<>>, <<>>)
    /\ out_lines = <<>>
    /\ progress = <<>>
    /\ CoreIdle
    /\ EolIdle
    /\ DetIdle
    /\ U8Idle

\* Action::Export: SerializeData::serialize with SerializeType::Txt on the game
\* of the one core file, or DecimaGroup::export on the folder with
\* SerializeType::Txt or SerializeType::Json
Export ==
    /\ dpc = "start"
    /\ \E languages \in DriverSelections, add_language_names \in BOOLEAN :
           IF fmt = "json"
           THEN /\ doc' = serialize_locals(game, cores, languages).locals
                /\ UNCHANGED <<txt, deinfo, out_lines>>
           ELSE /\ \E e \in { IF mode = "single"
                               THEN SingleExport(game, New(game, cores[1]).chunks,
                                                 languages, add_language_names)
                               ELSE GroupExport(game, cores, languages,
                                                add_language_names) } :
                       /\ txt' = e.txt
                       /\ deinfo' = e.deinfo
                       /\ out_lines' = e.lines
                /\ UNCHANGED doc
    /\ progress' = IF mode = "single" THEN <<>> ELSE ExportProgress(game, cores, 1)
    /\ dpc' = "exported"
    /\ UNCHANGED <<mode, fmt, cores, dont_skip, run, coreVars, eolVars, detVars, u8Vars>>

\* the text file is edited by hand
Tamper ==
    /\ dpc = "exported"
    /\ fmt = "txt"
    /\ \E kind \in TamperKinds : txt' = Tampered(txt, kind)
    /\ dpc' = "tampered"
    /\ UNCHANGED <<mode, fmt, cores, dont_skip, deinfo, doc, run, out_lines, progress,
                   coreVars, eolVars, detVars, u8Vars>>

\* the input folder is not the one that was exported: DecimaGroup::new of the
\* import finds other files
FolderChanges ==
    /\ dpc \in {"exported", "tampered"}
    /\ mode = "group"
    /\ cores' \in ChangedFolders(game, cores) \ {cores}
    /\ dpc' = "changed"
    /\ UNCHANGED <<mode, fmt, dont_skip, txt, deinfo, doc, run, out_lines, progress,
                   coreVars, eolVars, detVars, u8Vars>>

\* Action::Import
Import ==
    /\ dpc \in {"exported", "tampered", "changed"}
    /\ IF fmt = "json"
       THEN \E order \in Orders(DOMAIN doc) :
                /\ run' = deserialize_locals(game, cores, doc, order)
                /\ progress' = ImportCalls(game, mode, fmt, cores, txt, deinfo,
                                           doc, order)
       ELSE /\ run' = IF mode = "single"
                      THEN SingleImport(game, cores[1], txt, deinfo, dont_skip)
                      ELSE GroupImport(game, cores, txt, deinfo)
            /\ progress' = ImportCalls(game, mode, fmt, cores, txt, deinfo,
                                       doc, <<>>)
    /\ dpc' = "imported"
    /\ UNCHANGED <<mode, fmt, cores, dont_skip, txt, deinfo, doc, out_lines,
                   coreVars, eolVars, detVars, u8Vars>>

NextDrivers ==
    \/ Export
    \/ Tamper
    \/ FolderChanges
    \/ Import

SpecDrivers == InitDrivers /\ [][NextDrivers]_vars

\* ------------------------------------------------------------------------
\* detect_game on a file
\* ------------------------------------------------------------------------

\* core files given to detect_game: up to MaxRecords whole records, each with
\* one of the magics and with an empty payload, an opaque payload or a payload
\* that has the bytes of a DS header, followed by nothing or by the beginning
\* of one more header
DetectMagics ==
    {HZD_LOCALIZED_MAGIC, HZD_CUTSCENE_MAGIC, DS_LOCALIZED_MAGIC, OTHER_MAGIC}
DetectPayloads == {<<>>, <<7, 8, 9>>, DS_LOCALIZED_MAGIC \o LE(0, 4)}
DetectTails == {<<>>, Take(ImgOthers, 5), Take(ImgOthers, 10)}
DetectInputs ==
    UNION { [recs : [1..n -> [magic : DetectMagics, payload : DetectPayloads]],
             tail : DetectTails] : n \in 0..MaxRecords }

\* the bytes of the file
DetectImage(in) ==
    Flatten([i \in 1..Len(in.recs) |->
                 ImgChunk(in.recs[i].magic, Len(in.recs[i].payload),
                          in.recs[i].payload)])
    \o in.tail

InitDetect ==
    /\ det_pc = "given"
    /\ det_in \in DetectInputs
    /\ det_out = [ok |-> TRUE, v |-> "Unknown"]
    /\ game = "hzd"
    /\ CoreIdle
    /\ EolIdle
    /\ DrvIdle
    /\ U8Idle

\* detect_game on the file
Detect ==
    /\ det_pc = "given"
    /\ det_out' = detect_game(DetectImage(det_in))
    /\ det_pc' = "detected"
    /\ UNCHANGED <<det_in, coreVars, eolVars, drvVars, u8Vars>>

NextDetect ==
    \/ Detect

SpecDetect == InitDetect /\ [][NextDetect]_vars

\* ------------------------------------------------------------------------
\* Properties
\* ------------------------------------------------------------------------

\* ------------------------------------------------------------------------
\* A narrow string field: what write() stores for the string it holds, and
\* what new() reads from those bytes
\* ------------------------------------------------------------------------

U16_MAX == 65535

\* a text of more than U16_MAX bytes that an import stored in the field
LongText == [i \in 1..(U16_MAX + 2) |-> 97]

\* the strings a narrow field may hold at write time: the texts of up to
\* MaxStrLen characters over "a", " " and "e-acute", and the long text
HeldAlphabet == {97, SPACE, 233}
HeldStrings ==
    UNION { [1..n -> HeldAlphabet] : n \in 0..MaxStrLen } \cup {LongText}

\* the bytes of the field written behind the string (the mode of a DS group)
FollowingField == <<7>>

InitStrings ==
    /\ u8_pc = "held"
    /\ u8_in \in HeldStrings
    /\ u8_out = <<>>
    /\ u8_back = REof
    /\ game = "hzd"
    /\ CoreIdle
    /\ EolIdle
    /\ DrvIdle
    /\ DetIdle

\* write_options of the string and of the field behind it
WriteString ==
    /\ u8_pc = "held"
    /\ u8_out' = U8StringWrite(u8_in) \o FollowingField
    /\ u8_pc' = "written"
    /\ UNCHANGED <<u8_in, u8_back, coreVars, eolVars, drvVars, detVars>>

\* read_options on the bytes written
ReadString ==
    /\ u8_pc = "written"
    /\ u8_back' = U8StringRead(u8_out)
    /\ u8_pc' = "read"
    /\ UNCHANGED <<u8_in, u8_out, coreVars, eolVars, drvVars, detVars>>

NextStrings ==
    \/ WriteString
    \/ ReadString

SpecStrings == InitStrings /\ [][NextStrings]_vars

\* C1: write() right after new(), with no update in between, produces exactly
\* the bytes that new() read.
C1_WriteReturnsTheBytesRead ==
    (out.written /\ ~out.edited) => out.bytes = stream

\* the documents internal_serialize gives for the chunks c
ExportedDocs(c) == { internal_serialize(game, c, languages) : languages \in Selections(game) }

\* C2: importing the document that internal_serialize returned for the game,
\* unchanged, succeeds and leaves every chunk as it was, so that write() gives
\* the bytes it gave before.
C2_DocumentRoundTrip ==
    (last.op = "import_doc" /\ last.arg \in ExportedDocs(last.pre)) =>
        /\ err = Ok
        /\ chunks = last.pre
        /\ Write(game, chunks) = Write(game, last.pre)

\* C2 happens: a game with a Cutscene whose strings were edited before is
\* exported for the languages Langs and imported again.
C2_Witness ==
    /\ last.op = "import_doc"
    /\ last.arg = internal_serialize(game, last.pre, Langs)
    /\ last.pre # parsed
    /\ \E i \in 1..Len(chunks) : chunks[i].variant.kind = "Cutscene"
    /\ err = Ok
    /\ chunks = last.pre

\* the (lines, envelope) pairs internal_serialize_to_lines gives for the
\* chunks c and a non-empty selection of languages
ExportedLines(c) ==
    { internal_serialize_to_lines(game, c, languages, aln) :
          languages \in Selections(game) \ {{}}, aln \in BOOLEAN }

\* C3: importing the lines and the envelope that internal_serialize_to_lines
\* returned for the game, unchanged, succeeds and leaves every chunk as it was.
C3_LineListRoundTrip ==
    (last.op = "import_lines" /\ last.arg \in ExportedLines(last.pre)) =>
        /\ err = Ok
        /\ chunks = last.pre

\* C4: replace_eol_back gives back the string that replace_eol was given.
C4_EolBackIsInverse ==
    eol_pc = "restored" => eol_back = eol_in

\* C5: an import whose text file has another number of lines than the count
\* of its envelope fails with the line count error, with no chunk of a game
\* in memory changed and no output file created.
C5_LineCountGate ==
    (dpc = "imported" /\ Len(ReadTxt(txt)) # deinfo.count) =>
        /\ run.outputs = <<>>
        /\ IF mode = "single"
           THEN /\ run.result = DeserializeError(
                        LineCountDoesntMatchWithInput(deinfo.count, Len(ReadTxt(txt))))
                /\ run.mem = <<New(game, cores[1]).chunks>>
           ELSE /\ run.result = DeserializeError(
                        LineNumberDoesntMatch(deinfo.count, Len(ReadTxt(txt))))
                /\ run.mem = <<>>

\* C5 happens: a group export of a folder of two files with local resources
\* got a line added, and the import was refused.
C5_Witness ==
    /\ dpc = "imported"
    /\ mode = "group"
    /\ Len(deinfo.info) = 2
    /\ Len(ReadTxt(txt)) = deinfo.count + 1
    /\ run.result.kind = "DeserializeError"

\* C6: when an update fails with CutsceneLinesDoesntMatch, the resource it
\* was applied to is as it was before the call.
C6_CutsceneUpdateIsAtomic ==
    err.kind = "CutsceneLinesDoesntMatch" =>
        chunks[last.at + 1] = last.pre[last.at + 1]

\* the number of entries the failed call supplied for language lang of the
\* resource at index last.at: the length of the list of the entry, or the
\* length of the piece of lines of that language
SuppliedFor(lang) ==
    IF last.op = "import_lines"
    THEN LET infos == last.arg.deinfo.info
             k == CHOOSE n \in 1..Len(infos) : infos[n].index = last.at
         IN  Len(SliceGet(last.arg.lines, infos[k].range).v)
                 \div Cardinality(last.arg.deinfo.languages)
    ELSE LET k == CHOOSE n \in 1..Len(last.arg) : last.arg[n].index = last.at
         IN  Len(last.arg[k].variant.map[lang])

\* C7: CutsceneLinesDoesntMatch names the language, the number of entries the
\* resource has for it and the differing number of entries supplied for it.
C7_CutsceneMismatchIsReported ==
    err.kind = "CutsceneLinesDoesntMatch" =>
        /\ err.expected = Len(last.pre[last.at + 1].variant.list[err.lang].strings_data)
        /\ err.got = SuppliedFor(err.lang)
        /\ err.got # err.expected

\* C8: whatever updates were called, the chunks are as many as were parsed
\* and every chunk parsed as Others is as it was parsed.
C8_OthersPassThrough ==
    pc \in {"ready", "aborted"} =>
        /\ Len(chunks) = Len(parsed)
        /\ \A i \in 1..Len(parsed) :
               /\ chunks[i].magic = parsed[i].magic
               /\ parsed[i].variant.kind = "Others" => chunks[i] = parsed[i]

\* C8 happens: a file with an Others chunk had two updates, the last one of
\* which was addressed to the Others chunk and refused, and its local
\* resource is not as parsed.
C8_Witness ==
    /\ nops = 2
    /\ chunks # parsed
    /\ err.kind = "ResourceNotMatchAtIdx"
    /\ parsed[last.at + 1].variant.kind = "Others"

\* the size field and the payload of a written record
WrittenSize(record) == FromLE(SubSeq(record, 9, 12))
WrittenPayload(record) == Drop(record, 12)

\* C9: in every record write() writes, the size field is the number of
\* payload bytes that follow the 12-byte header.
C9_SizeFieldIsPayloadLength ==
    out.written =>
        /\ out.bytes = Write(game, chunks)
        /\ \A i \in 1..Len(chunks) :
           \A record \in {ChunkWrite(game, chunks[i])} :
               /\ WrittenSize(record) = Len(WrittenPayload(record))
               /\ WrittenSize(record) = rt_size(game, chunks[i].variant)

\* C9 happens: a game whose strings were edited so that its records have
\* another length than the records read is written.
C9_Witness ==
    /\ out.written
    /\ out.edited
    /\ Len(chunks) = 2
    /\ Len(out.bytes) # Len(Write(game, parsed))
    /\ \E i \in 1..Len(chunks) :
           /\ chunks[i].variant.kind = "Cutscene"
           /\ chunks[i] # parsed[i]

\* C10: new() succeeds only when the read loop has consumed the whole stream.
C10_NewReadsTheWholeStream ==
    (last.op = "new" /\ pc = "ready") => last.unread = <<>>

\* the kinds of the chunks the stream parses into
StreamKinds(r) == [i \in 1..Len(r.chunks) |-> VariantName(r.chunks[i].variant)]

\* C11: new() fails with NoLocalResource exactly when the stream parses and
\* none of its chunks is Localized or Cutscene; a stream that parses with at
\* least one such chunk succeeds and keeps all its chunks in stream order.
C11_NoLocalResourceExactly ==
    last.op = "new" =>
        \A r \in {until_eof(game, stream)} :
            /\ err.kind = "NoLocalResource"
                   <=> (r.ok /\ \A i \in 1..Len(r.chunks) :
                                    StreamKinds(r)[i] \notin {"Localized", "Cutscene"})
            /\ (r.ok /\ \E i \in 1..Len(r.chunks) :
                            StreamKinds(r)[i] \in {"Localized", "Cutscene"})
                   => /\ err = Ok
                      /\ pc = "ready"
                      /\ chunks = r.chunks

\* C11 happens both ways: a file of an opaque record followed by a Localized
\* record is accepted with its two chunks in that order.
C11_Witness ==
    /\ last.op = "new"
    /\ stream = ImgOthers \o ImgLocalized(game)
    /\ err = Ok
    /\ Len(chunks) = 2
    /\ chunks[1].magic = OTHER_MAGIC /\ chunks[1].variant.kind = "Others"
    /\ chunks[2].variant.kind = "Localized"

\* the entries of the last update, as (chunk index) records in batch order
LastEntries ==
    IF last.op = "import_lines" THEN last.arg.deinfo.info ELSE last.arg

\* the position in the batch of the first entry whose index is not an index
\* of the n chunks, 0 if every entry has one
FirstOutOfRange(entries, n) ==
    IF \E k \in 1..Len(entries) : entries[k].index >= n
    THEN CHOOSE k \in 1..Len(entries) :
             /\ entries[k].index >= n
             /\ \A j \in 1..(k - 1) : entries[j].index < n
    ELSE 0

\* the last update applied to the chunks c with the first k entries only
LastUpdateUpTo(c, k) ==
    CASE last.op = "update_locals" ->
             update_locals(game, c, SubSeq(last.arg, 1, k))
      [] last.op = "import_doc" ->
             internal_deserialize_and_update(game, c, SubSeq(last.arg, 1, k))
      [] last.op = "import_lines" ->
             FromLinesLoop(game, c, last.arg.lines, last.arg.deinfo,
                           SubSeq(last.arg.deinfo.info, 1, k))

\* the last update got as far as its entries (the line list passed the
\* comparison with the recorded count)
EntriesReached ==
    /\ last.op \in {"update_locals", "import_doc", "import_lines"}
    /\ last.op = "import_lines" => Len(last.arg.lines) = last.arg.deinfo.count

\* C12: an entry whose index is not smaller than the number of chunks makes
\* the update fail with InvalidLocalResourceIdx carrying the number of chunks
\* and the index, and the chunks are as the entries before it left them: that
\* entry and the entries after it change nothing.
C12_IndexOutOfRange ==
    EntriesReached =>
        \A k \in {FirstOutOfRange(LastEntries, Len(last.pre))} :
            k # 0 =>
                \A before \in {LastUpdateUpTo(last.pre, k - 1)} :
                    before.err = Ok =>
                        /\ err = [kind |-> "InvalidLocalResourceIdx",
                                  max |-> Len(last.pre),
                                  got |-> LastEntries[k].index]
                        /\ chunks = before.chunks

\* C12 happens: a batch of three entries whose second entry has an index out
\* of range fails after its first entry changed a string and before its third
\* entry changed any.
C12_Witness ==
    /\ last.op = "update_locals"
    /\ Len(last.pre) = 2
    /\ Len(last.arg) = 3
    /\ FirstOutOfRange(last.arg, 2) = 2
    /\ err.kind = "InvalidLocalResourceIdx"
    /\ chunks[1] # last.pre[1]
    /\ chunks[2] = last.pre[2]
    /\ last.arg[3].index = 1
    /\ \A e \in {get_locals(game, last.pre)[2]} : last.arg[3] # e

\* the kind of an entry of the last update (an entry of DS is Localized)
EntryKind(e) ==
    IF game = "ds" THEN "Localized"
    ELSE IF last.op = "import_lines" THEN e.variant
    ELSE e.variant.kind

\* the position in the batch of the first entry whose kind is not the kind of
\* the chunk of c at its index, 0 if there is none
FirstMismatch(entries, c) ==
    IF \E k \in 1..Len(entries) :
           /\ entries[k].index < Len(c)
           /\ EntryKind(entries[k]) # c[entries[k].index + 1].variant.kind
    THEN CHOOSE k \in 1..Len(entries) :
             /\ entries[k].index < Len(c)
             /\ EntryKind(entries[k]) # c[entries[k].index + 1].variant.kind
             /\ \A j \in 1..(k - 1) :
                    ~(/\ entries[j].index < Len(c)
                      /\ EntryKind(entries[j]) # c[entries[j].index + 1].variant.kind)
    ELSE 0

\* the update fails at its entry k with ResourceNotMatchAtIdx naming the kind
\* of the entry and the kind of the chunk, the chunks being as the entries
\* before k left them
MismatchReportedAt(k) ==
    \A before \in {LastUpdateUpTo(last.pre, k - 1)} :
        before.err = Ok =>
            /\ err = [kind |-> "ResourceNotMatchAtIdx",
                      input |-> EntryKind(LastEntries[k]),
                      original |->
                          last.pre[LastEntries[k].index + 1].variant.kind]
            /\ chunks = before.chunks

\* C13 as stated: an entry whose kind differs from the kind of the chunk at
\* its index fails with ResourceNotMatchAtIdx naming both kinds and leaves the
\* chunk unchanged.
C13_KindMismatch ==
    EntriesReached =>
        \A k \in {FirstMismatch(LastEntries, last.pre)} :
            k # 0 => MismatchReportedAt(k)

\* C13 amended: the same, for the entries of a HZD line list, when the line
\* range of the entry lies inside the lines given (the range is looked up
\* before the kinds are compared).
C13_KindMismatchInRange ==
    EntriesReached =>
        \A k \in {FirstMismatch(LastEntries, last.pre)} :
            (/\ k # 0
             /\ (game = "hzd" /\ last.op = "import_lines")
                    => SliceGet(last.arg.lines, LastEntries[k].range).some)
                => MismatchReportedAt(k)

\* C13 happens: a HZD line list whose second entry, recorded as Cutscene, is
\* addressed to the Localized chunk fails after its first entry was stored.
C13_Witness ==
    /\ game = "hzd"
    /\ last.op = "import_lines"
    /\ Len(LastEntries) = 2
    /\ FirstMismatch(LastEntries, last.pre) = 2
    /\ SliceGet(last.arg.lines, LastEntries[2].range).some
    /\ err = [kind |-> "ResourceNotMatchAtIdx",
              input |-> "Cutscene", original |-> "Localized"]
    /\ chunks # last.pre

\* the magics of the whole records of the file given to detect_game
DetMagics == {det_in.recs[i].magic : i \in 1..Len(det_in.recs)}

\* C14: over a file that is a sequence of whole chunk headers with their
\* payloads, detect_game returns Unknown when no magic belongs to either game,
\* Hzd when a magic of HZD (Localized or Cutscene) occurs and the DS magic does
\* not, Ds in the symmetric case and Mixed when both occur: the result is a
\* function of the set of magics, so neither the order of the chunks nor the
\* payloads matter.
C14_DetectByMagics ==
    (det_pc = "detected" /\ det_in.tail = <<>>) =>
        det_out =
            [ok |-> TRUE,
             v |-> IF DetMagics \cap {HZD_LOCALIZED_MAGIC, HZD_CUTSCENE_MAGIC,
                                      DS_LOCALIZED_MAGIC} = {}
                       THEN "Unknown"
                   ELSE IF DS_LOCALIZED_MAGIC \notin DetMagics THEN "Hzd"
                   ELSE IF DetMagics \cap {HZD_LOCALIZED_MAGIC,
                                           HZD_CUTSCENE_MAGIC} = {}
                       THEN "Ds"
                   ELSE "Mixed"]

\* C14 witness: a file of three chunks, the DS one before a foreign one and the
\* HZD Cutscene one last, the foreign one with the bytes of a DS header as its
\* payload, is detected as Mixed.
C14_Witness ==
    /\ det_pc = "detected"
    /\ det_in.tail = <<>>
    /\ Len(det_in.recs) = 3
    /\ det_in.recs[1].magic = DS_LOCALIZED_MAGIC
    /\ det_in.recs[2].magic = OTHER_MAGIC
    /\ det_in.recs[2].payload = DS_LOCALIZED_MAGIC \o LE(0, 4)
    /\ det_in.recs[3].magic = HZD_CUTSCENE_MAGIC
    /\ det_out = [ok |-> TRUE, v |-> "Mixed"]

\* the single-file import has run and its update returned Ok
SingleImported ==
    /\ mode = "single"
    /\ dpc = "imported"
    /\ \A n \in {New(game, cores[1])} :
           /\ n.err = "Ok"
           /\ SingleDeserializeAndUpdate(game, n.chunks, txt, deinfo).err = Ok

\* C15: after a single-file import whose update succeeded, if the game in
\* memory equals the game as parsed and dont_skip is not set then no output file
\* exists and the command ends with "Nothing changed"; if dont_skip is set or
\* the game in memory differs from the parsed one then exactly the output file
\* exists and holds the serialization of the game in memory.
C15_WriteOnlyIfChangedOrForced ==
    SingleImported =>
        \A n \in {New(game, cores[1])} :
            /\ (~dont_skip /\ run.mem[1] = n.chunks) =>
                   /\ run.outputs = <<>>
                   /\ run.result = NothingChanged
            /\ (dont_skip \/ run.mem[1] # n.chunks) =>
                   /\ run.result = Ok
                   /\ run.outputs = <<[path |-> 1,
                                       bytes |-> Write(game, run.mem[1])]>>

\* C15 witness: an import of the unedited export of an HZD file with dont_skip
\* set leaves the game as parsed and writes the output file.
C15_Witness ==
    /\ SingleImported
    /\ game = "hzd"
    /\ dont_skip
    /\ dpc = "imported"
    /\ run.mem[1] = New(game, cores[1]).chunks
    /\ Len(run.outputs) = 1
    /\ run.outputs[1].bytes = cores[1]

\* the entries of the group input, by position: the path of each and what the
\* update of the file of that path with the entry alone gives
GroupEntries ==
    IF fmt = "json"
    THEN { [path |-> p, known |-> p \in DOMAIN cores,
            new |-> IF p \in DOMAIN cores THEN New(game, cores[p]).err ELSE "Ok",
            sliced |-> TRUE,
            r |-> IF p \in DOMAIN cores
                  THEN internal_deserialize_and_update(
                           game, New(game, cores[p]).chunks, doc[p])
                  ELSE Res(<<>>, Ok)] : p \in DOMAIN doc }
    ELSE { [path |-> deinfo.info[k].path,
            known |-> deinfo.info[k].path \in DOMAIN cores,
            new |-> IF deinfo.info[k].path \in DOMAIN cores
                    THEN New(game, cores[deinfo.info[k].path]).err ELSE "Ok",
            sliced |-> SliceGet(ReadTxt(txt), deinfo.info[k].range).some,
            r |-> IF /\ deinfo.info[k].path \in DOMAIN cores
                     /\ SliceGet(ReadTxt(txt), deinfo.info[k].range).some
                  THEN internal_deserialize_and_update_from_lines(
                           game, New(game, cores[deinfo.info[k].path]).chunks,
                           SliceGet(ReadTxt(txt), deinfo.info[k].range).v,
                           deinfo.info[k].inner_info)
                  ELSE Res(<<>>, Ok)] : k \in 1..Len(deinfo.info) }

\* a group import has run, past the test of the number of lines, and every
\* entry whose path is in the folder can be imported
GroupImportedClean ==
    /\ mode = "group"
    /\ dpc = "imported"
    /\ fmt = "txt" => Len(ReadTxt(txt)) = deinfo.count
    /\ \A e \in GroupEntries :
           e.known => (e.new = "Ok" /\ e.sliced /\ e.r.err = Ok)

\* C16: in a group import of a line list or of a structured file, the entries
\* whose path is not in the folder are passed over: the import returns Ok, no
\* output file has such a path, and every entry whose path is in the folder has
\* its output file, which holds the serialization of its updated game (for the
\* line list the output files come in the order of the entries).
C16_UnknownPathsSkipped ==
    GroupImportedClean =>
        /\ run.result = Ok
        /\ {run.outputs[i].path : i \in 1..Len(run.outputs)} =
               {e.path : e \in {x \in GroupEntries : x.known}}
        /\ \A i \in 1..Len(run.outputs) :
               \E e \in GroupEntries :
                   /\ e.path = run.outputs[i].path
                   /\ e.known
                   /\ run.outputs[i].bytes = Write(game, e.r.chunks)
        /\ \A i, j \in 1..Len(run.outputs) :
               run.outputs[i].path = run.outputs[j].path => i = j
        /\ fmt = "txt" =>
               \A i, j \in 1..Len(run.outputs) :
                   i < j => \E k, l \in 1..Len(deinfo.info) :
                                /\ k < l
                                /\ deinfo.info[k].path = run.outputs[i].path
                                /\ deinfo.info[l].path = run.outputs[j].path

\* C16 witness: a line list exported from two files is imported into a folder
\* from which the first file was removed; the import returns Ok and the only
\* output file is the one of the second path.
C16_Witness ==
    /\ GroupImportedClean
    /\ fmt = "txt"
    /\ Len(deinfo.info) = 2
    /\ deinfo.info[1].path = 1
    /\ deinfo.info[2].path = 2
    /\ DOMAIN cores = {2}
    /\ run.result = Ok
    /\ Len(run.outputs) = 1
    /\ run.outputs[1].path = 2

\* the paths of the input folder whose file has a local resource
PathsWithLocals == {p \in DOMAIN cores : New(game, cores[p]).err = "Ok"}

\* the paths recorded by the group export
ExportedPaths ==
    IF fmt = "json" THEN DOMAIN doc
    ELSE {deinfo.info[k].path : k \in 1..Len(deinfo.info)}

\* C17 (export): a group export passes over the files whose parse yields
\* NoLocalResource and records every other file of the folder.
C17_ExportSkipsNoLocalResource ==
    (mode = "group" /\ dpc = "exported") => ExportedPaths = PathsWithLocals

\* C17: in group mode a file of the folder whose parse yields NoLocalResource
\* is passed over, by the export and by the import alike: the export records
\* every other file, and the import does not end with NoLocalResource.
C17_NoLocalResourceSkipped ==
    /\ C17_ExportSkipsNoLocalResource
    /\ (mode = "group" /\ dpc = "imported") =>
           run.result # NewError("NoLocalResource")

\* the timings of the entries of language l of the Cutscene variant v
Timings(v, l) ==
    [j \in 1..Len(v.list[l].strings_data) |-> v.list[l].strings_data[j].timing]

\* C18: whatever updates were called since new(), and whether they returned Ok
\* or an error, every chunk that was parsed as a Cutscene is a Cutscene whose
\* list of every language has the timings that were read, in the same number
\* and at the same positions; only the strings differ.
C18_CutsceneTimingsKept ==
    pc \in {"ready", "aborted"} =>
        /\ Len(chunks) = Len(parsed)
        /\ \A i \in 1..Len(parsed) :
               parsed[i].variant.kind = "Cutscene" =>
                   /\ chunks[i].variant.kind = "Cutscene"
                   /\ \A l \in 0..(HZD_LEN - 1) :
                          Timings(chunks[i].variant, l) = Timings(parsed[i].variant, l)

\* C18 witness: after two updates, one of which failed, a Cutscene chunk that
\* has two entries for a language has another string in one of them and the
\* timings that were read.
C18_Witness ==
    /\ pc = "ready"
    /\ nops = 2
    /\ err # Ok
    /\ \E i \in 1..Len(parsed) :
           /\ parsed[i].variant.kind = "Cutscene"
           /\ \E l \in 0..(HZD_LEN - 1) :
                  /\ Len(parsed[i].variant.list[l].strings_data) = 2
                  /\ chunks[i].variant.list[l].strings_data[2].string #
                         parsed[i].variant.list[l].strings_data[2].string
                  /\ Timings(chunks[i].variant, l) = Timings(parsed[i].variant, l)
                  /\ Timings(parsed[i].variant, l)[1] # Timings(parsed[i].variant, l)[2]

\* the number of lines the local resource v contributes to a line list of the
\* languages langs: one per language for a Localized, the entries of every
\* language for a Cutscene
LinesOf(v, langs) ==
    IF v.kind = "Cutscene"
    THEN SumSeq([k \in 1..Cardinality(langs) |->
                     Len(v.list[Ascending(langs)[k]].strings_data)])
    ELSE Cardinality(langs)

\* the envelope e is the one of a line list of the chunks c: an entry for every
\* local resource, in the order of the chunks, with ranges that start at 0,
\* follow one another without gap and have the length of what the resource
\* contributes, and a count that is the number of lines
EnvelopeFits(e, c) ==
    \A locs \in {Ascending({i \in 1..Len(c) : IsLocal(c[i].variant)})} :
        /\ Len(e.info) = Len(locs)
        /\ \A k \in 1..Len(e.info) :
               /\ k <= Len(locs) => e.info[k].index = locs[k] - 1
               /\ e.info[k].range.start = IF k = 1 THEN 0 ELSE e.info[k - 1].range.end
               /\ k <= Len(locs) =>
                      e.info[k].range.end - e.info[k].range.start =
                          LinesOf(c[locs[k]].variant, e.languages)
        /\ e.count = SumSeq([k \in 1..Len(locs) |->
                                 LinesOf(c[locs[k]].variant, e.languages)])

\* C19 (HZD): the envelope of a line-list export of an HZD file has the shape
\* of EnvelopeFits, for every selection of languages.
C19_EnvelopeShapeHZD ==
    (mode = "single" /\ dpc = "exported" /\ game = "hzd") =>
        EnvelopeFits(deinfo, New(game, cores[1]).chunks)

\* C19: the envelope of a line-list export, of either game and for every
\* selection of languages, has one entry per exported resource in chunk order,
\* ranges that start at 0 and are contiguous, each as long as the lines its
\* resource contributes, and a count equal to the number of lines emitted.
C19_EnvelopeShape ==
    (mode = "single" /\ dpc = "exported") =>
        EnvelopeFits(deinfo, New(game, cores[1]).chunks)

\* the line with the leading "<Language>:: " removed, the line itself when it
\* does not start with it
WithoutName(line, lang) ==
    IF /\ Len(line) >= Len(LanguageName(game, lang)) + 3
       /\ SubSeq(line, 1, Len(LanguageName(game, lang)) + 3) =
              LanguageName(game, lang) \o <<COLON, COLON, SPACE>>
    THEN SubSeq(line, Len(LanguageName(game, lang)) + 4, Len(line))
    ELSE line

\* the entry info of the envelope stored its lines, taken from the line list
\* lines, in the local resource v as WithoutName gives them
StoredWithoutName(v, info, lines) ==
    \A p \in 1..Cardinality(deinfo.languages) :
        \A lang \in {Ascending(deinfo.languages)[p]} :
            IF v.kind = "Cutscene"
            THEN \A n \in {(info.range.end - info.range.start)
                               \div Cardinality(deinfo.languages)} :
                     \A j \in 1..n :
                         v.list[lang].strings_data[j].string =
                             WithoutName(lines[info.range.start + (p - 1) * n + j],
                                         lang)
            ELSE (IF game = "hzd" THEN v.strings[lang]
                  ELSE v.string_groups[lang].text) =
                     WithoutName(lines[info.range.start + p], lang)

\* a single-file import of a line list with language names has updated the game
ImportedWithNames ==
    /\ mode = "single"
    /\ dpc = "imported"
    /\ deinfo.add_language_names
    /\ run.result \in {Ok, NothingChanged}

\* C20 (HZD): after an HZD import of a line list with language names, every
\* string of an entry is its line without the leading "<Language>:: ", or the
\* whole line when the line does not start with it.
C20_PrefixRemovedExactlyHZD ==
    (ImportedWithNames /\ game = "hzd") =>
        \A k \in 1..Len(deinfo.info) :
            StoredWithoutName(run.mem[1][deinfo.info[k].index + 1].variant,
                              deinfo.info[k], ReadTxt(txt))

\* C20: after an import of a line list with language names, of either game,
\* every string of an entry is its line with exactly the leading
\* "<Language>:: " removed, or the whole line when the line does not start
\* with it, also when the string begins with whitespace.
C20_PrefixRemovedExactly ==
    ImportedWithNames =>
        \A k \in 1..Len(deinfo.info) :
            StoredWithoutName(run.mem[1][deinfo.info[k].index + 1].variant,
                              deinfo.info[k], ReadTxt(txt))

\* the FixedMap held by the local resource v and the one of its extraction
\* view (map_inner of a clone)
HeldMap(g, v) ==
    IF g = "ds" THEN v.string_groups
    ELSE IF v.kind = "Cutscene" THEN v.list ELSE v.strings

ViewMap(g, v) ==
    IF g = "ds" THEN LocalOf(g, 0, v).strings ELSE LocalOf(g, 0, v).variant.map

\* len() == N and the keys that index the map are the codes 0..N-1
HoldsN(m, n) ==
    /\ DOMAIN m = 0..(n - 1)
    /\ Cardinality(DOMAIN m) = n

iter(m, n) == [k \in 1..n |-> <<k - 1, m[k - 1]>>]

\* an iteration that hands the elements out from the last key to the first
into_iter_Descending(m, n) == [k \in 1..n |-> <<n - k, m[n - k]>>]

\* IntoIterator for FixedMap: array::from_fn(|i| K::from(i)) zipped with inner
into_iter(m, n) ==
    LET keys == [k \in 1..n |-> k - 1]
        inner == ArrSeq(m, n)
    IN  [k \in 1..n |-> <<keys[k], inner[k]>>]

\* the sequence of pairs s has exactly n pairs, the i-th being the key with
\* code i (counted from 0) and the element of m at that key
YieldsInCodeOrder(s, m, n) ==
    /\ Len(s) = n
    /\ \A k \in 1..Len(s) : s[k][1] = k - 1 /\ s[k][2] = m[s[k][1]]
    /\ \A l \in 0..(n - 1) : Cardinality({k \in 1..Len(s) : s[k][1] = l}) = 1
    /\ [k \in 1..Len(s) |-> s[k][1]] = Ascending(0..(n - 1))

\* C22: in every state, iter and into_iter over the FixedMap of every local
\* resource, and over the one of its extraction view, yield exactly LEN pairs,
\* one per key, in ascending order of the codes, the pair at position i
\* holding the key with code i and the element stored for it.
C22_IterationInCodeOrder ==
    \A i \in 1..Len(chunks) :
        IsLocal(chunks[i].variant) =>
            /\ YieldsInCodeOrder(iter(HeldMap(game, chunks[i].variant), LEN(game)),
                                 HeldMap(game, chunks[i].variant), LEN(game))
            /\ YieldsInCodeOrder(into_iter(HeldMap(game, chunks[i].variant), LEN(game)),
                                 HeldMap(game, chunks[i].variant), LEN(game))
            /\ YieldsInCodeOrder(into_iter(ViewMap(game, chunks[i].variant), LEN(game)),
                                 ViewMap(game, chunks[i].variant), LEN(game))

\* C22 witness: a map whose elements differ between two keys, after an update
\* stored another string in it, is iterated: the pairs of the two keys come
\* out at their codes' positions with their own elements.
C22_Witness ==
    /\ pc = "ready"
    /\ nops >= 1
    /\ \E i \in 1..Len(chunks) :
           /\ IsLocal(chunks[i].variant)
           /\ ViewMap(game, chunks[i].variant) # ViewMap(game, parsed[i].variant)
           /\ \E s \in {into_iter(ViewMap(game, chunks[i].variant), LEN(game))} :
                  /\ Len(s) = LEN(game)
                  /\ s[1][1] = 0
                  /\ s[2][1] = 1
                  /\ s[1][2] # s[2][2]
                  /\ s[1][2] = ViewMap(game, chunks[i].variant)[0]

\* the lines BufRead::lines yields for the bytes of a text file, decoded, before
\* replace_eol_back
PhysicalLines(bytes) ==
    LET split == SplitLines(bytes) IN
    [k \in 1..Len(split) |-> FromUtf8(split[k]).v]

\* C23: once a line-list export has written its text file, reading the file
\* line by line yields as many lines as the export produced, and each line read
\* is the exported line after replace_eol; this also when the last exported
\* line is the empty string.
C23_TextFileRoundTrip ==
    (dpc = "exported" /\ fmt = "txt") =>
        /\ Len(PhysicalLines(txt)) = Len(out_lines)
        /\ PhysicalLines(txt) = [k \in 1..Len(out_lines) |-> replace_eol(out_lines[k])]

\* C23 (lists that do not end with an empty line): the same round trip for the
\* exports whose last line is not the empty string.
C23_RoundTripUnlessLastEmpty ==
    (/\ dpc = "exported"
     /\ fmt = "txt"
     /\ out_lines # <<>>
     /\ out_lines[Len(out_lines)] # <<>>) =>
        /\ PhysicalLines(txt) = [k \in 1..Len(out_lines) |-> replace_eol(out_lines[k])]
        /\ ReadTxt(txt) = out_lines

\* the number of lines the languages of langs below l contribute to the lines
\* of the Cutscene v
LinesBefore(v, langs, l) ==
    LinesOf(v, {m \in langs : m < l})

\* the strings of the language l of the Cutscene v
StringsOf(v, l) ==
    [j \in 1..Len(v.list[l].strings_data) |-> v.list[l].strings_data[j].string]

\* the lines of the range of the info entry e that the language l contributed
\* to the export of the Cutscene v: as many as v has entries for l, after the
\* lines of the selected languages below l
LinesFor(lines, e, v, langs, l) ==
    [j \in 1..Len(v.list[l].strings_data) |->
        lines[e.range.start + LinesBefore(v, langs, l) + j]]

\* the argument of the last import is a line list without language names, of
\* as many lines as its envelope counts, with the envelope of an export of the
\* chunks it was applied to
ImportedOwnEnvelope ==
    /\ last.op = "import_lines"
    /\ game = "hzd"
    /\ last.arg.deinfo.languages # {}
    /\ last.arg.deinfo =
           internal_serialize_to_lines(game, last.pre, last.arg.deinfo.languages,
                                       FALSE).deinfo
    /\ Len(last.arg.lines) = last.arg.deinfo.count

\* C24: when a line list is imported with the envelope of its export, every
\* Cutscene resource gets, for every selected language, the lines that
\* language contributed: as many as its list has entries, in entry order;
\* this also when the selected languages have different numbers of entries.
C24_CutsceneLinesByLanguage ==
    ImportedOwnEnvelope =>
        /\ err = Ok
        /\ \A k \in 1..Len(last.arg.deinfo.info) :
               \A e \in {last.arg.deinfo.info[k]} :
                   e.variant = "Cutscene" =>
                       \A l \in last.arg.deinfo.languages :
                           StringsOf(chunks[e.index + 1].variant, l) =
                               LinesFor(last.arg.lines, e,
                                        last.pre[e.index + 1].variant,
                                        last.arg.deinfo.languages, l)

\* C24 (selected languages with the same number of entries, not zero): the
\* assignment of C24 when every selected language of every Cutscene has the
\* same number of entries, at least one.
C24_EvenCutsceneLinesByLanguage ==
    (/\ ImportedOwnEnvelope
     /\ \A i \in 1..Len(last.pre) :
            last.pre[i].variant.kind = "Cutscene" =>
                \A l, m \in last.arg.deinfo.languages :
                    /\ Len(last.pre[i].variant.list[l].strings_data) =
                           Len(last.pre[i].variant.list[m].strings_data)
                    /\ Len(last.pre[i].variant.list[l].strings_data) > 0) =>
        /\ err = Ok
        /\ \A k \in 1..Len(last.arg.deinfo.info) :
               \A e \in {last.arg.deinfo.info[k]} :
                   e.variant = "Cutscene" =>
                       \A l \in last.arg.deinfo.languages :
                           StringsOf(chunks[e.index + 1].variant, l) =
                               LinesFor(last.arg.lines, e,
                                        last.pre[e.index + 1].variant,
                                        last.arg.deinfo.languages, l)

\* the languages present in the entries of the document data that are
\* addressed to the chunk at index
PresentAt(g, data, index) ==
    UNION { IF data[k].index # index THEN {}
            ELSE IF g = "hzd" THEN DOMAIN data[k].variant.map
            ELSE DOMAIN data[k].strings : k \in 1..Len(data) }

\* the chunk with the strings of the languages of present blanked: what is
\* left is every other field of the chunk and the strings of the other
\* languages
Blanked(g, chunk, present) ==
    IF ~IsLocal(chunk.variant) THEN chunk
    ELSE IF g = "ds" THEN
        [chunk EXCEPT !.variant.string_groups =
            [l \in DOMAIN @ |-> IF l \in present THEN [@[l] EXCEPT !.text = <<>>]
                                ELSE @[l]]]
    ELSE IF chunk.variant.kind = "Localized" THEN
        [chunk EXCEPT !.variant.strings =
            [l \in DOMAIN @ |-> IF l \in present THEN <<>> ELSE @[l]]]
    ELSE
        [chunk EXCEPT !.variant.list =
            [l \in DOMAIN @ |->
                IF l \in present
                THEN [@[l] EXCEPT !.strings_data =
                         [j \in 1..Len(@) |-> [@[j] EXCEPT !.string = <<>>]]]
                ELSE @[l]]]

\* C25: after a document import, successful or not, every chunk is the chunk
\* it was before the call except for the strings of the languages present in
\* the entries addressed to it: the strings of the other languages, the uuid,
\* the note and mode of a DS group, the timings and the number of entries of
\* a cutscene list, the opaque bytes and the magic are unchanged, and so is
\* every chunk no entry is addressed to.
C25_DocumentImportFrame ==
    last.op = "import_doc" =>
        /\ Len(chunks) = Len(last.pre)
        /\ \A i \in 1..Len(chunks) :
               Blanked(game, chunks[i], PresentAt(game, last.arg, i - 1)) =
                   Blanked(game, last.pre[i], PresentAt(game, last.arg, i - 1))

\* C25 witness: a document with the strings of one language only was imported
\* into a resource that has text in two languages: the string of that
\* language changed, the one of the other language did not.
C25_Witness ==
    /\ last.op = "import_doc"
    /\ err = Ok
    /\ \E i \in 1..Len(chunks) :
           /\ IsLocal(chunks[i].variant)
           /\ PresentAt(game, last.arg, i - 1) = {0}
           /\ ViewMap(game, chunks[i].variant)[0] # ViewMap(game, last.pre[i].variant)[0]
           /\ ViewMap(game, chunks[i].variant)[1] = ViewMap(game, last.pre[i].variant)[1]
           /\ ViewMap(game, chunks[i].variant)[1] # <<>>

\* the codes stored in the 21 groups of the Cutscene payload of a stream of
\* one Cutscene record, in the order of the file (the groups are found by
\* reading them one after the other)
PayloadCodes(b) ==
    LET list == ReadArray("CutsceneStringGroup", Drop(b, 12 + 16 + 4 + 6 + 4), HZD_LEN)
    IN  IF list.st # "ok" THEN <<>>
        ELSE [i \in 1..Len(list.v) |-> list.v[i].lang_code]

\* C26: once new() has read a file, in every Cutscene resource the group at
\* the position of language L has the code of L, so that every code 0..N-1
\* occurs exactly once.
C26_GroupAtItsCode ==
    pc = "ready" =>
        \A i \in 1..Len(chunks) :
            chunks[i].variant.kind = "Cutscene" =>
                \A l \in 0..(HZD_LEN - 1) : chunks[i].variant.list[l].lang_code = l

\* C26 (payloads that hold every code once): the groups are at their codes
\* when the payload read holds the codes 0..N-1 once each, in whatever order.
C26_PermutedGroupsAtTheirCodes ==
    (/\ pc = "ready"
     /\ nops = 0
     /\ Len(chunks) = 1
     /\ chunks[1].variant.kind = "Cutscene"
     /\ \A l \in 0..(HZD_LEN - 1) :
            Cardinality({k \in 1..Len(PayloadCodes(stream)) :
                             PayloadCodes(stream)[k] = l}) = 1) =>
        \A l \in 0..(HZD_LEN - 1) : chunks[1].variant.list[l].lang_code = l

\* what the character at position i of s becomes: "<cf>" for a "\r" followed
\* by "\n", nothing for the "\n" of such a pair, "<cr>" for any other "\r",
\* "<lf>" for any other "\n", itself otherwise
EolPiece(s, i) ==
    IF s[i] = CR /\ i < Len(s) /\ s[i + 1] = LF THEN <<LT, CH_C, CH_F, GT>>
    ELSE IF s[i] = CR THEN <<LT, CH_C, CH_R, GT>>
    ELSE IF s[i] = LF /\ i > 1 /\ s[i - 1] = CR THEN <<>>
    ELSE IF s[i] = LF THEN <<LT, CH_L, CH_F, GT>>
    ELSE <<s[i]>>

\* C27: replace_eol turns every "\r\n" into "<cf>", every "\r" that no "\n"
\* follows into "<cr>" and every other "\n" into "<lf>", copies every other
\* character, and its result holds no "\r" and no "\n".
C27_ReplaceEolTokens ==
    eol_pc = "escaped" =>
        /\ eol_out = Flatten([i \in 1..Len(eol_in) |-> EolPiece(eol_in, i)])
        /\ \A k \in 1..Len(eol_out) : eol_out[k] # CR /\ eol_out[k] # LF

\* C27 witness: "\r\r\n\n", which has a lone "\r", a "\r\n" and a lone "\n",
\* became "<cr><cf><lf>".
C27_Witness ==
    /\ eol_pc = "escaped"
    /\ eol_in = <<CR, CR, LF, LF>>
    /\ eol_out = <<LT, CH_C, CH_R, GT, LT, CH_C, CH_F, GT, LT, CH_L, CH_F, GT>>

\* C28: a line-list import whose number of lines is the count of its envelope
\* returns Ok or an error value; it does not panic, whatever the languages
\* and the ranges of the envelope are.
C28_LineImportReturns ==
    (last.op = "import_lines" /\ Len(last.arg.lines) = last.arg.deinfo.count) =>
        err # Panic

\* C28 (envelopes of an export with languages selected, every Cutscene with
\* enough entries): the import returns Ok or an error value when the envelope
\* is the one of an export of the chunks for a non-empty selection and every
\* Cutscene contributed at least as many lines as languages are selected.
C28_ExportEnvelopeReturns ==
    (/\ ImportedOwnEnvelope
     /\ \A i \in 1..Len(last.pre) :
            last.pre[i].variant.kind = "Cutscene" =>
                LinesOf(last.pre[i].variant, last.arg.deinfo.languages) >=
                    Cardinality(last.arg.deinfo.languages)) =>
        err # Panic

\* the length prefix written for the narrow string and the number of body
\* bytes written behind it, before the field that follows
WrittenPrefix == FromLE(Take(u8_out, 2))
WrittenBody == Len(u8_out) - 2 - Len(FollowingField)

\* C29: for every string a narrow field holds at write time, the 16-bit
\* prefix written is the number of body bytes written, full_size() is 2 plus
\* that number, and reading the bytes gives the string back and leaves the
\* reader at the field that follows.
C29_PrefixIsBodyLength ==
    /\ u8_pc \in {"written", "read"} =>
           /\ WrittenPrefix = WrittenBody
           /\ U8FullSize(u8_in) = 2 + WrittenBody
    /\ u8_pc = "read" => u8_back = ROk(u8_in, FollowingField)

\* C29 (strings of at most 65535 bytes): the same for every string whose
\* UTF-8 length fits the prefix.
C29_PrefixIsBodyLengthUpToMax ==
    Utf8Len(u8_in) <= U16_MAX =>
        /\ u8_pc \in {"written", "read"} =>
               /\ WrittenPrefix = WrittenBody
               /\ U8FullSize(u8_in) = 2 + WrittenBody
        /\ u8_pc = "read" => u8_back = ROk(u8_in, FollowingField)

\* the positions of the progress log that hold the event e
PositionsOf(e) == {k \in 1..Len(progress) : progress[k] = e}
\* the units the iterator of the last loop handed to the loop body
UnitsHandedOut == {progress[k].unit : k \in {j \in 1..Len(progress) :
                                             progress[j].ev = "add_progress"}}

====
